---- MODULE Spec2Model ----
(***************************************************************************)
(* Model of the transit-operations REST backend (src/src/server.js).       *)
(*                                                                         *)
(* The main part is POST /api/services-hierarchie, the validated creation  *)
(* of a scheduled trip ("service"): field check, "HH:MM" parsing, duration *)
(* check, line lookup, operating-window check, duplicate lookup and        *)
(* create.  A handler is an async function: it runs without interruption   *)
(* between two awaits, and other handlers run while it awaits the          *)
(* database.  Each action of it is one database call together with the     *)
(* synchronous code that follows it up to the next await.                  *)
(*                                                                         *)
(* Around it: the start of the server (the one-time database probe that    *)
(* sets prismaReady), the middleware every request goes through, and the   *)
(* other writers of the service table, POST /api/services and the two      *)
(* updates, each of which makes a single database call.  Further handlers *)
(* with their own tables: POST /api/pointages (service update, then        *)
(* pointage insert), POST /api/arrets (maximum, then insert), POST and PUT *)
(* /api/vehicles, and GET /api/pointages/stats/daily.                      *)
(*                                                                         *)
(* Conventions for JavaScript values:                                      *)
(*   - a string that is parsed (a time of day) is the sequence of its      *)
(*     characters; <<>> is the empty string and also stands for an absent  *)
(*     field (undefined, null and "" are all falsy);                       *)
(*   - a number is <<v>>, and NaN is <<>> (every comparison with NaN is    *)
(*     false, every sum or product with NaN is NaN);                       *)
(*   - an optional record (a row or null) is <<r>> or <<>>;                *)
(*   - identifiers are TLA+ strings, "" when absent;                       *)
(*   - a Date is an instant, an integer; the date-only string of day d is  *)
(*     <<d>> and denotes the instant of that day's midnight.               *)
(***************************************************************************)
EXTENDS Integers, Sequences, FiniteSets, TLC

\* ------------------------------------------------------------------ bounds

\* Number of requests the server may be handling at the same time.
NumReq == 2
\* The model stops accepting requests once this many rows are stored or due.
MaxRows == 3
\* The last instant of the clock.
MaxClock == 2
\* Instants per day: day d starts at instant d * TicksPerDay.
TicksPerDay == 2
\* POST /api/services is not taken once this many rows are stored or due.
MaxCrudRows == 1

\* ------------------------------------------------- JavaScript numbers, strings

NaN == <<>>
Num(v) == <<v>>
IsNaN(x) == x = <<>>

JsAdd(x, y) == IF IsNaN(x) \/ IsNaN(y) THEN NaN ELSE Num(x[1] + y[1])
JsSub(x, y) == IF IsNaN(x) \/ IsNaN(y) THEN NaN ELSE Num(x[1] - y[1])
JsMul(x, y) == IF IsNaN(x) \/ IsNaN(y) THEN NaN ELSE Num(x[1] * y[1])
JsLt(x, y) == ~IsNaN(x) /\ ~IsNaN(y) /\ x[1] < y[1]
JsLe(x, y) == ~IsNaN(x) /\ ~IsNaN(y) /\ x[1] <= y[1]
JsGt(x, y) == ~IsNaN(x) /\ ~IsNaN(y) /\ x[1] > y[1]
JsGe(x, y) == ~IsNaN(x) /\ ~IsNaN(y) /\ x[1] >= y[1]

Digits == <<"0", "1", "2", "3", "4", "5", "6", "7", "8", "9">>
IsDigit(c) == \E i \in 1..10 : Digits[i] = c
DigitVal(c) == (CHOOSE i \in 1..10 : Digits[i] = c) - 1

\* String.prototype.split(':'): the parts between the separators, at least one.
RECURSIVE SplitFrom(_, _, _)
SplitFrom(s, i, cur) ==
    IF i > Len(s) THEN <<cur>>
    ELSE IF s[i] = ":" THEN <<cur>> \o SplitFrom(s, i + 1, <<>>)
    ELSE SplitFrom(s, i + 1, Append(cur, s[i]))
Split(s) == SplitFrom(s, 1, <<>>)

\* Number(part) for a part made of decimal digits and other characters:
\* "" is 0, a run of digits is its decimal value, "-" and digits its negation,
\* anything else NaN.
RECURSIVE DecimalOf(_, _)
DecimalOf(part, n) ==
    IF n = 0 THEN 0 ELSE 10 * DecimalOf(part, n - 1) + DigitVal(part[n])
AllDigits(part) == \A i \in 1..Len(part) : IsDigit(part[i])
JsNumber(part) ==
    IF part = <<>> THEN Num(0)
    ELSE IF AllDigits(part) THEN Num(DecimalOf(part, Len(part)))
    ELSE IF Len(part) > 1 /\ part[1] = "-" /\ AllDigits(Tail(part))
         THEN Num(0 - DecimalOf(Tail(part), Len(part) - 1))
    ELSE NaN

\* const [h, m] = str.split(':').map(Number); h * 60 + m
\* (a missing second part is undefined, and a sum with undefined is NaN).
ParseMinutes(str) ==
    LET parts == Split(str)
        h == JsNumber(parts[1])
        m == IF Len(parts) >= 2 THEN JsNumber(parts[2]) ELSE NaN
    IN  JsAdd(JsMul(h, Num(60)), m)

\* "HH:MM" for hour h and minute m, two digits each.
TimeOfDay(h, m) ==
    <<Digits[(h \div 10) + 1], Digits[(h % 10) + 1], ":",
      Digits[(m \div 10) + 1], Digits[(m % 10) + 1]>>

\* new Date("YYYY-MM-DD") for the date-only string of day d: that day's midnight.
DateOf(dateStr) == dateStr[1] * TicksPerDay

\* JSON values of a request body: undefined (the field is absent), a number,
\* or a string (a sequence of characters).
Undef == [t |-> "undefined", n |-> 0, s |-> <<>>]
JNum(n) == [t |-> "number", n |-> n, s |-> <<>>]
JStr(s) == [t |-> "string", n |-> 0, s |-> s]

\* Number(x): NaN for undefined, the number itself, the value a string denotes.
NumberOf(x) ==
    CASE x.t = "undefined" -> NaN
      [] x.t = "number" -> Num(x.n)
      [] x.t = "string" -> JsNumber(x.s)

\* Number.isFinite (the model has no infinite number).
IsFinite(x) == ~IsNaN(x)

\* String.prototype.trim(): without the spaces at both ends.
RECURSIVE TrimStart(_)
TrimStart(s) == IF s # <<>> /\ Head(s) = " " THEN TrimStart(Tail(s)) ELSE s
RECURSIVE TrimEnd(_)
TrimEnd(s) ==
    IF s # <<>> /\ s[Len(s)] = " " THEN TrimEnd(SubSeq(s, 1, Len(s) - 1)) ELSE s
Trim(s) == TrimEnd(TrimStart(s))

\* String.prototype.toUpperCase(), on the letters the requests use.
UpperOf(c) == CASE c = "a" -> "A" [] c = "b" -> "B" [] OTHER -> c
ToUpperCase(s) == [i \in 1..Len(s) |-> UpperOf(s[i])]

\* ------------------------------------------------------ program constants

MinutesPerDay == 1440
MaxDuree == 600

\* ------------------------------------------------------------- the tables

\* The ligne table: operating window per line id.  L1 does not wrap, L2 wraps
\* past midnight, L3 has no window configured.
Lignes ==
    [id \in {"L1", "L2", "L3"} |->
        CASE id = "L1" -> [heureDebut |-> TimeOfDay(8, 0), heureFin |-> TimeOfDay(20, 0)]
          [] id = "L2" -> [heureDebut |-> TimeOfDay(5, 0), heureFin |-> TimeOfDay(2, 0)]
          [] id = "L3" -> [heureDebut |-> <<>>, heureFin |-> <<>>]]

\* prisma.ligne.findUnique({ where: { id } }): the line, or null.
LigneFindUnique(id) == IF id \in DOMAIN Lignes THEN <<Lignes[id]>> ELSE <<>>

\* findUnique needs a value for the unique field it selects by: the call with
\* where: { id: undefined }, made for a request without ligneId, is refused by
\* the client with a validation error instead of resolving to null.
FindUniqueRefuses(id) == id = ""

VARIABLES
    services,    \* the service table: the rows in insertion order, row i has id i
    clock,       \* the current instant (what new Date() returns)
    pc,          \* per request slot: "idle", "ligne", "dup", "create" or "done"
    req,         \* per slot: the request body b
    data,        \* per slot: the argument of the pending service.create call
    res,         \* per slot: the response sent
    writes,      \* per slot: service.create calls performed for this request
    reads,       \* per slot: ligne.findUnique and service.findFirst calls made
    prisma,      \* the PrismaClient was constructed (prisma is not undefined)
    prismaReady, \* the readiness flag
    boot,        \* startServer: "probing" (awaiting the race) or "listening"
    query,       \* the probe query: "none", "pending", "resolved" or "rejected"
    gate,        \* the last request answered outside the trip handlers
    crud,        \* the last answer of POST /api/services and of the two PUTs
    pointages,   \* the pointage table: the rows in insertion order
    pt,          \* the POST /api/pointages request: position, body, answer
    arrets,      \* the arret table: the rows in insertion order
    ar,          \* per request slot: the POST /api/arrets request
    vehicles,    \* the vehicle table: a set of rows, parc is unique
    veh,         \* the last answer of POST /api/vehicles and PUT /api/vehicles/:parc
    stats        \* the GET /api/pointages/stats/daily request: position, reads, answer

handlerVars == <<pc, req, data, res, writes, reads>>
startVars == <<prisma, prismaReady, boot, query>>
sideVars == <<pointages, pt, arrets, ar, vehicles, veh, stats>>
vars == <<services, clock, pc, req, data, res, writes, reads,
          prisma, prismaReady, boot, query, gate, crud,
          pointages, pt, arrets, ar, vehicles, veh, stats>>

Procs == 1..NumReq

NoBody == [sensId |-> "", ligneId |-> "", heureDebut |-> <<>>, heureFin |-> <<>>,
           date |-> <<>>, statut |-> ""]
NoRow == [id |-> 0, sensId |-> "", ligneId |-> "", conducteurId |-> "",
          heureDebut |-> <<>>, heureFin |-> <<>>, statut |-> "", date |-> 0]
NoReads == [ligne |-> 0, dup |-> 0]
NoGate == [method |-> "", path |-> "", jsonOk |-> TRUE, outcome |-> "", status |-> 0]
NoPut == [conducteurId |-> <<>>, heureDebut |-> <<>>, heureFin |-> <<>>, statut |-> ""]
NoCrud == [op |-> "", id |-> 0, body |-> NoPut, status |-> 0]
NoRes == [status |-> 0, error |-> "", row |-> NoRow, duplicate |-> FALSE]
NoPointage == [serviceId |-> 0, conducteurId |-> "", validatedBy |-> "",
               vehicleType |-> "", permisChecked |-> FALSE,
               chronometerChecked |-> FALSE]
NoPt == [pc |-> "idle", body |-> NoPointage, status |-> 0, marked |-> FALSE, added |-> 0]
NoArret == [trajetId |-> "", nom |-> "", ordre |-> <<>>]
NoAr == [pc |-> "idle", body |-> NoArret, ordre |-> 0, status |-> 0]
NoVehicle == [parc |-> <<>>, type |-> "", modele |-> "", immat |-> <<>>, km |-> Undef,
              etatTechnique |-> Undef, tauxSante |-> Undef]
NoVeh == [op |-> "", parc |-> <<>>, body |-> NoVehicle, status |-> 0]
NoOut == [totalServices |-> 0, totalPointages |-> 0, validationRate |-> 0,
          conductorStats |-> <<>>, hourlyDistribution |-> <<>>, lineStats |-> <<>>]
NoStats == [pc |-> "idle", day |-> 0, pointages |-> <<>>, out |-> NoOut]

\* Faulty variant: the failure is answered as a server error.
ErrorRes500(msg) == [status |-> 500, error |-> msg, row |-> NoRow, duplicate |-> FALSE]

\* res.status(400).json({ error })
ErrorRes(msg) == [status |-> 400, error |-> msg, row |-> NoRow, duplicate |-> FALSE]

\* ---------------------------------------------------- the validation code

\* Faulty variant: no adjustment for a trip that crosses midnight.
DureeServiceNoWrap(minutesDebut, minutesFin) == JsSub(minutesFin, minutesDebut)

\* dureeService: end - start, or (1440 - start) + end across midnight.
DureeService(minutesDebut, minutesFin) ==
    LET d == JsSub(minutesFin, minutesDebut)
    IN  IF JsLt(d, Num(0))
        THEN JsAdd(JsSub(Num(MinutesPerDay), minutesDebut), minutesFin)
        ELSE d

\* Faulty variant: a request without direction is not refused.
FieldAndDurationCheckNoSens(b) ==
    IF b.heureDebut = <<>> \/ b.heureFin = <<>>
    THEN "MissingFields"
    ELSE LET dureeService ==
                 DureeService(ParseMinutes(b.heureDebut), ParseMinutes(b.heureFin))
         IN  IF JsGt(dureeService, Num(MaxDuree)) THEN "DurationExceeds"
             ELSE IF JsLe(dureeService, Num(0)) THEN "EndNotAfterStart"
             ELSE "ok"

\* Faulty variant: a duration of 0 is let through (< 0 instead of <= 0).
FieldAndDurationCheckZeroOk(b) ==
    IF b.sensId = "" \/ b.heureDebut = <<>> \/ b.heureFin = <<>>
    THEN "MissingFields"
    ELSE LET dureeService ==
                 DureeService(ParseMinutes(b.heureDebut), ParseMinutes(b.heureFin))
         IN  IF JsGt(dureeService, Num(MaxDuree)) THEN "DurationExceeds"
             ELSE IF JsLt(dureeService, Num(0)) THEN "EndNotAfterStart"
             ELSE "ok"

\* The checks made before the first database call: "ok" or the error returned.
FieldAndDurationCheck(b) ==
    IF b.sensId = "" \/ b.heureDebut = <<>> \/ b.heureFin = <<>>
    THEN "MissingFields"
    ELSE LET dureeService ==
                 DureeService(ParseMinutes(b.heureDebut), ParseMinutes(b.heureFin))
         IN  IF JsGt(dureeService, Num(MaxDuree)) THEN "DurationExceeds"
             ELSE IF JsLe(dureeService, Num(0)) THEN "EndNotAfterStart"
             ELSE "ok"

\* Faulty variant: a trip that runs past midnight is not compared with the closing time.
WrappingWindowCheckStartTest(minutesDebut, minutesFin, minutesLigneDebut, minutesLigneFin) ==
    IF ~JsGe(minutesDebut, minutesLigneDebut) /\ ~JsLe(minutesDebut, minutesLigneFin)
    THEN "MustStartBetween"
    ELSE "ok"

\* Faulty variant: the start must be after the opening and before the closing time.
WrappingWindowCheckBoth(minutesDebut, minutesFin, minutesLigneDebut, minutesLigneFin) ==
    IF ~JsGe(minutesDebut, minutesLigneDebut) \/ ~JsLe(minutesDebut, minutesLigneFin)
    THEN "MustStartBetween"
    ELSE IF /\ JsGt(minutesFin, minutesLigneFin)
            /\ JsGe(minutesDebut, minutesLigneDebut)
            /\ JsLt(minutesFin, minutesDebut)
    THEN "CannotEndAfter"
    ELSE "ok"

\* The window of a line that wraps past midnight (minutesLigneFin < minutesLigneDebut).
WrappingWindowCheck(minutesDebut, minutesFin, minutesLigneDebut, minutesLigneFin) ==
    IF ~JsGe(minutesDebut, minutesLigneDebut) /\ ~JsLe(minutesDebut, minutesLigneFin)
    THEN "MustStartBetween"
    ELSE IF /\ JsGt(minutesFin, minutesLigneFin)
            /\ JsGe(minutesDebut, minutesLigneDebut)
            /\ JsLt(minutesFin, minutesDebut)
    THEN "CannotEndAfter"
    ELSE "ok"

\* Faulty variant: the end of the trip is not compared with the closing time.
NormalWindowCheckStartOnly(minutesDebut, minutesFin, minutesLigneDebut, minutesLigneFin) ==
    IF JsLt(minutesDebut, minutesLigneDebut) THEN "MustStartAtOrAfter" ELSE "ok"

\* The window of a line that does not wrap.
NormalWindowCheck(minutesDebut, minutesFin, minutesLigneDebut, minutesLigneFin) ==
    IF JsLt(minutesDebut, minutesLigneDebut) THEN "MustStartAtOrAfter"
    ELSE IF JsGt(minutesFin, minutesLigneFin) THEN "MustEndBeforeOrAt"
    ELSE "ok"

\* The check against the line found (ligne is <<row>> or <<>> for null).
WindowCheck(b, ligne) ==
    IF ligne = <<>> \/ ligne[1].heureDebut = <<>> \/ ligne[1].heureFin = <<>>
    THEN "ok"
    ELSE LET minutesDebut == ParseMinutes(b.heureDebut)
             minutesFin == ParseMinutes(b.heureFin)
             minutesLigneDebut == ParseMinutes(ligne[1].heureDebut)
             minutesLigneFin == ParseMinutes(ligne[1].heureFin)
             lignePasseMinuit == JsLt(minutesLigneFin, minutesLigneDebut)
         IN  IF lignePasseMinuit
             THEN WrappingWindowCheck(minutesDebut, minutesFin,
                                      minutesLigneDebut, minutesLigneFin)
             ELSE NormalWindowCheck(minutesDebut, minutesFin,
                                    minutesLigneDebut, minutesLigneFin)

\* ------------------------------------------------------ duplicate lookup

\* Faulty variant: the two times are swapped in the where clause.
DupWhereSwapped(b) ==
    [sensId |-> b.sensId,
     date |-> IF b.date # <<>> THEN <<DateOf(b.date)>> ELSE <<>>,
     heureDebut |-> b.heureFin,
     heureFin |-> b.heureDebut]

\* The where clause of the duplicate lookup; date is <<>> (undefined: the
\* filter is left out) when the request carries no date.
DupWhere(b) ==
    [sensId |-> b.sensId,
     date |-> IF b.date # <<>> THEN <<DateOf(b.date)>> ELSE <<>>,
     heureDebut |-> b.heureDebut,
     heureFin |-> b.heureFin]

\* Faulty variant: the end time is compared with the start time asked for.
RowMatchesWrongField(row, where) ==
    /\ row.sensId = where.sensId
    /\ where.date # <<>> => row.date = where.date[1]
    /\ row.heureDebut = where.heureDebut
    /\ row.heureFin = where.heureDebut

RowMatches(row, where) ==
    /\ row.sensId = where.sensId
    /\ where.date # <<>> => row.date = where.date[1]
    /\ row.heureDebut = where.heureDebut
    /\ row.heureFin = where.heureFin

\* prisma.service.findFirst({ where }): the rows it may return, as <<row>>, or
\* <<>> (null) when none matches.  No order is asked for, so any match may come.
ServiceFindFirst(rows, where) ==
    LET found == {i \in 1..Len(rows) : RowMatches(rows[i], where)}
    IN  IF found = {} THEN {<<>>} ELSE {<<rows[i]>> : i \in found}

\* The data of the service.create call, built when the call is made.
CreateData(b, now) ==
    [id |-> 0,
     sensId |-> b.sensId,
     ligneId |-> b.ligneId,
     conducteurId |-> "",
     heureDebut |-> b.heureDebut,
     heureFin |-> b.heureFin,
     statut |-> IF b.statut # "" THEN b.statut ELSE "Planifiee",
     date |-> IF b.date # <<>> THEN DateOf(b.date) ELSE now]

\* Faulty variant: the create call leaves the table alone when a row with the same
\* direction, date and times is stored already.
ServiceCreateUnlessStored(rows, d) ==
    IF \E i \in 1..Len(rows) :
          /\ rows[i].sensId = d.sensId /\ rows[i].date = d.date
          /\ rows[i].heureDebut = d.heureDebut /\ rows[i].heureFin = d.heureFin
    THEN rows
    ELSE Append(rows, [d EXCEPT !.id = Len(rows) + 1])

\* Faulty variant: the create call stores the row twice.
ServiceCreateTwice(rows, d) ==
    Append(Append(rows, [d EXCEPT !.id = Len(rows) + 1]),
           [d EXCEPT !.id = Len(rows) + 2])

\* prisma.service.create({ data }): the table with the new row, which gets a fresh id.
ServiceCreate(rows, d) == Append(rows, [d EXCEPT !.id = Len(rows) + 1])

\* ------------------------------------------------- start and middleware

\* The paths served without the database.
noDbPaths == {"/", "/health", "/api/today", "/api/server-time", "/api/cors-test"}

\* Faulty variant: the readiness middleware lets every request through.
MiddlewareNoReadiness(method, path, jsonOk, ready) ==
    IF method = "OPTIONS" THEN "OptionsOk"
    ELSE IF ~jsonOk THEN "ParseError"
    ELSE "next"

\* The middleware in the order it is installed, for a request with the given
\* method and path, whose JSON body parses or not, under the given readiness:
\*   - cors and the header middleware answer every OPTIONS request with 200;
\*   - express.json() hands a body that does not parse to the error handler,
\*     which answers 500;
\*   - the readiness middleware answers 503 unless the database is ready or
\*     the path is one of noDbPaths;
\*   - otherwise next(): the request reaches its route, or the 404 handler.
Middleware(method, path, jsonOk, ready) ==
    IF method = "OPTIONS" THEN "OptionsOk"
    ELSE IF ~jsonOk THEN "ParseError"
    ELSE IF ~ready /\ path \notin noDbPaths THEN "Unavailable"
    ELSE "next"

\* The status the middleware answers with; 0 when the answer is the route's.
MiddlewareStatus(outcome) ==
    CASE outcome = "OptionsOk" -> 200
      [] outcome = "ParseError" -> 500
      [] outcome = "Unavailable" -> 503
      [] OTHER -> 0

\* The server listens and a request with a well-formed body gets to its route.
Reaches(method, path) ==
    /\ boot = "listening"
    /\ Middleware(method, path, TRUE, prismaReady) = "next"

\* Faulty variant: the flag is set whenever the probe query resolves, also
\* after the timer has settled the race.
QueryResolvesLate ==
    /\ query = "pending"
    /\ query' = "resolved"
    /\ prismaReady' = TRUE
    /\ boot' = "listening"
    /\ UNCHANGED <<services, clock, handlerVars, prisma, gate, crud, sideVars>>

\* startServer awaits Promise.race([probe query, 5 s timer]).  The probe query
\* resolves: when the race is still open, prismaReady is set and the server
\* starts to listen; after the timer it changes nothing.
QueryResolves ==
    /\ query = "pending"
    /\ query' = "resolved"
    /\ IF boot = "probing"
       THEN prismaReady' = TRUE /\ boot' = "listening"
       ELSE UNCHANGED <<prismaReady, boot>>
    /\ UNCHANGED <<services, clock, handlerVars, prisma, gate, crud, sideVars>>

\* Faulty variant: the flag is set although the probe query rejected.
QueryRejectsSetsReady ==
    /\ query = "pending"
    /\ query' = "rejected"
    /\ IF boot = "probing"
       THEN prismaReady' = TRUE /\ boot' = "listening"
       ELSE UNCHANGED <<prismaReady, boot>>
    /\ UNCHANGED <<services, clock, handlerVars, prisma, gate, crud, sideVars>>

\* The probe query rejects: the catch block logs, and the server listens
\* without the database.
QueryRejects ==
    /\ query = "pending"
    /\ query' = "rejected"
    /\ IF boot = "probing" THEN boot' = "listening" ELSE UNCHANGED boot
    /\ UNCHANGED <<services, clock, handlerVars, prisma, prismaReady, gate, crud, sideVars>>

\* The timer fires before the probe query settles: the race rejects, and the
\* server listens without the database.  (Once the race is settled the timer
\* changes nothing.)
TimerFires ==
    /\ boot = "probing"
    /\ boot' = "listening"
    /\ UNCHANGED <<services, clock, handlerVars, prisma, prismaReady, query, gate, crud, sideVars>>

\* A request is answered by the middleware, or passed on to a route that is
\* not one of the trip handlers below.
Route(Methods, Paths) ==
    /\ boot = "listening"
    /\ \E method \in Methods, path \in Paths, jsonOk \in BOOLEAN :
          LET outcome == Middleware(method, path, jsonOk, prismaReady)
          IN  gate' = [method |-> method, path |-> path, jsonOk |-> jsonOk,
                       outcome |-> outcome, status |-> MiddlewareStatus(outcome)]
    /\ UNCHANGED <<services, clock, handlerVars, startVars, crud, sideVars>>

\* ------------------------------------------------------------ the handler

\* Requests in flight: received and not yet answered.
InFlight == {p \in Procs : pc[p] \in {"ligne", "dup", "create"}}

\* Faulty variant: the line is looked up before the fields and the duration are checked.
ReceiveLooksUpFirst(p, Bodies, alone) ==
    /\ pc[p] = "idle"
    /\ Reaches("POST", "/api/services-hierarchie")
    /\ alone => \A q \in Procs : pc[q] = "idle"
    /\ Len(services) + Cardinality(InFlight) < MaxRows
    /\ \E b \in Bodies :
          /\ req' = [req EXCEPT ![p] = b]
          /\ reads' = [reads EXCEPT ![p].ligne = @ + 1]
          /\ LET check == FieldAndDurationCheck(b)
             IN  IF check # "ok"
                 THEN /\ pc' = [pc EXCEPT ![p] = "done"]
                      /\ res' = [res EXCEPT ![p] = ErrorRes(check)]
                 ELSE /\ pc' = [pc EXCEPT ![p] = "ligne"]
                      /\ UNCHANGED res
    /\ UNCHANGED <<services, clock, data, writes, startVars, gate, crud, sideVars>>

\* A request arrives with a body b of Bodies.  The handler checks the fields
\* and the duration, answers 400 on a failure and otherwise calls
\* ligne.findUnique.  `alone` asks that no other request is being handled
\* (requests one at a time).
Receive(p, Bodies, alone) ==
    /\ pc[p] = "idle"
    /\ Reaches("POST", "/api/services-hierarchie")
    /\ alone => \A q \in Procs : pc[q] = "idle"
    /\ Len(services) + Cardinality(InFlight) < MaxRows
    /\ \E b \in Bodies :
          /\ req' = [req EXCEPT ![p] = b]
          /\ LET check == FieldAndDurationCheck(b)
             IN  IF check # "ok"
                 THEN /\ pc' = [pc EXCEPT ![p] = "done"]
                      /\ res' = [res EXCEPT ![p] = ErrorRes(check)]
                      /\ UNCHANGED reads
                 ELSE /\ pc' = [pc EXCEPT ![p] = "ligne"]
                      /\ reads' = [reads EXCEPT ![p].ligne = @ + 1]
                      /\ UNCHANGED res
    /\ UNCHANGED <<services, clock, data, writes, startVars, gate, crud, sideVars>>

\* ligne.findUnique settles.  Called without an id it throws, and the catch
\* block answers 400 with the exception's text; otherwise it resolves: the
\* window check, then the call of service.findFirst.
LigneLookup(p) ==
    /\ pc[p] = "ligne"
    /\ IF FindUniqueRefuses(req[p].ligneId)
       THEN /\ pc' = [pc EXCEPT ![p] = "done"]
            /\ res' = [res EXCEPT ![p] = ErrorRes("InvalidWhere")]
            /\ UNCHANGED reads
       ELSE LET ligne == LigneFindUnique(req[p].ligneId)
                check == WindowCheck(req[p], ligne)
            IN  IF check # "ok"
                THEN /\ pc' = [pc EXCEPT ![p] = "done"]
                     /\ res' = [res EXCEPT ![p] = ErrorRes(check)]
                     /\ UNCHANGED reads
                ELSE /\ pc' = [pc EXCEPT ![p] = "dup"]
                     /\ reads' = [reads EXCEPT ![p].dup = @ + 1]
                     /\ UNCHANGED res
    /\ UNCHANGED <<services, clock, req, data, writes, startVars, gate, crud, sideVars>>

\* service.findFirst resolves: an existing row is sent back marked duplicate,
\* otherwise service.create is called with the data built now.
DupLookup(p) ==
    /\ pc[p] = "dup"
    /\ \E existing \in ServiceFindFirst(services, DupWhere(req[p])) :
          IF existing # <<>>
          THEN /\ pc' = [pc EXCEPT ![p] = "done"]
               /\ res' = [res EXCEPT ![p] = [status |-> 200, error |-> "",
                                             row |-> existing[1], duplicate |-> TRUE]]
               /\ UNCHANGED data
          ELSE /\ pc' = [pc EXCEPT ![p] = "create"]
               /\ data' = [data EXCEPT ![p] = CreateData(req[p], clock)]
               /\ UNCHANGED res
    /\ UNCHANGED <<services, clock, req, writes, reads, startVars, gate, crud, sideVars>>

\* service.create resolves: the row is stored and sent back.
Create(p) ==
    /\ pc[p] = "create"
    /\ services' = ServiceCreate(services, data[p])
    /\ writes' = [writes EXCEPT ![p] = @ + 1]
    /\ pc' = [pc EXCEPT ![p] = "done"]
    /\ res' = [res EXCEPT ![p] = [status |-> 200, error |-> "",
                                  row |-> services'[Len(services')],
                                  duplicate |-> FALSE]]
    /\ UNCHANGED <<clock, req, data, reads, startVars, gate, crud, sideVars>>

\* The pending database call rejects: the catch block answers 400 with the
\* exception's text.
PersistenceError(p) ==
    /\ pc[p] \in {"ligne", "dup", "create"}
    /\ pc' = [pc EXCEPT ![p] = "done"]
    /\ res' = [res EXCEPT ![p] = ErrorRes("Exception")]
    /\ UNCHANGED <<services, clock, req, data, writes, reads, startVars, gate, crud, sideVars>>

\* The response has been sent; the slot serves the next request.
Finish(p) ==
    /\ pc[p] = "done"
    /\ pc' = [pc EXCEPT ![p] = "idle"]
    /\ req' = [req EXCEPT ![p] = NoBody]
    /\ data' = [data EXCEPT ![p] = NoRow]
    /\ res' = [res EXCEPT ![p] = NoRes]
    /\ writes' = [writes EXCEPT ![p] = 0]
    /\ reads' = [reads EXCEPT ![p] = NoReads]
    /\ UNCHANGED <<services, clock, startVars, gate, crud, sideVars>>

\* ------------------------------------- the plain create and the two updates

\* The data POST /api/services creates: no direction, conducteurId or null,
\* statut 'Planifiée' unless given.
ServicePayload(b) ==
    [id |-> 0,
     sensId |-> "",
     ligneId |-> b.ligneId,
     conducteurId |-> b.conducteurId,
     heureDebut |-> b.heureDebut,
     heureFin |-> b.heureFin,
     statut |-> IF b.statut # "" THEN b.statut ELSE "Planifiee",
     date |-> DateOf(b.date)]

\* The fields POST /api/services asks for.
ServiceMissing(b) ==
    b.ligneId = "" \/ b.date = <<>> \/ b.heureDebut = <<>> \/ b.heureFin = <<>>

\* POST /api/services: 400 when a field is missing, otherwise service.create
\* with the payload, answered 201, or 400 when the call rejects.
PostService(Bodies) ==
    /\ Reaches("POST", "/api/services")
    /\ Len(services) + Cardinality(InFlight) < MaxCrudRows
    /\ \E b \in Bodies, dbOk \in BOOLEAN :
          IF ServiceMissing(b) \/ ~dbOk
          THEN /\ crud' = [op |-> "POST /api/services", id |-> 0, body |-> b,
                           status |-> 400]
               /\ UNCHANGED services
          ELSE /\ services' = ServiceCreate(services, ServicePayload(b))
               /\ crud' = [op |-> "POST /api/services", id |-> Len(services'),
                           body |-> b, status |-> 201]
    /\ UNCHANGED <<clock, handlerVars, startVars, gate, sideVars>>

\* The data of the update calls.  A field that is <<>> (or "" for statut) is
\* undefined and left as it is; conducteurId <<"">> sets null.  In a request
\* body conducteurId is <<>> when omitted, <<"">> when null, <<id>> otherwise.
\* PUT /api/services/:id: conducteurId !== undefined ? (conducteurId || null) : undefined
PutServiceData(b) ==
    [conducteurId |-> b.conducteurId,
     heureDebut |-> b.heureDebut,
     heureFin |-> b.heureFin,
     statut |-> b.statut]

\* PUT /api/services-hierarchie/:id: conducteurId ?? undefined
PutHierarchieData(b) ==
    [conducteurId |-> IF b.conducteurId = <<"">> THEN <<>> ELSE b.conducteurId,
     heureDebut |-> b.heureDebut,
     heureFin |-> b.heureFin,
     statut |-> b.statut]

\* Faulty variant: the update is refused unless the new times pass the duration
\* check of the creation.
ServiceUpdateChecked(rows, id, d) ==
    LET row == rows[id]
        new == [row EXCEPT
                  !.conducteurId = IF d.conducteurId # <<>> THEN d.conducteurId[1] ELSE @,
                  !.heureDebut = IF d.heureDebut # <<>> THEN d.heureDebut ELSE @,
                  !.heureFin = IF d.heureFin # <<>> THEN d.heureFin ELSE @,
                  !.statut = IF d.statut # "" THEN d.statut ELSE @]
    IN  IF FieldAndDurationCheck([sensId |-> "s", heureDebut |-> new.heureDebut,
                                  heureFin |-> new.heureFin]) = "ok"
        THEN [rows EXCEPT ![id] = new]
        ELSE rows

\* prisma.service.update({ where: { id }, data }) on a stored row: the fields
\* of data that are defined replace the row's.
ServiceUpdate(rows, id, d) ==
    [rows EXCEPT ![id] =
        [@ EXCEPT
           !.conducteurId = IF d.conducteurId # <<>> THEN d.conducteurId[1] ELSE @,
           !.heureDebut = IF d.heureDebut # <<>> THEN d.heureDebut ELSE @,
           !.heureFin = IF d.heureFin # <<>> THEN d.heureFin ELSE @,
           !.statut = IF d.statut # "" THEN d.statut ELSE @]]

\* An update request for row id with data d: service.update, answered 200
\* with the row; 400 when no row has the id or the call rejects.
Put(op, id, b, d) ==
    /\ \E dbOk \in BOOLEAN :
          IF id \in 1..Len(services) /\ dbOk
          THEN /\ services' = ServiceUpdate(services, id, d)
               /\ crud' = [op |-> op, id |-> id, body |-> b, status |-> 200]
          ELSE /\ crud' = [op |-> op, id |-> id, body |-> b, status |-> 400]
               /\ UNCHANGED services
    /\ UNCHANGED <<clock, handlerVars, startVars, gate, sideVars>>

PutService(Ids, Bodies) ==
    /\ Reaches("PUT", "/api/services/:id")
    /\ \E id \in Ids, b \in Bodies :
          Put("PUT /api/services/:id", id, b, PutServiceData(b))

PutServiceHierarchie(Ids, Bodies) ==
    /\ Reaches("PUT", "/api/services-hierarchie/:id")
    /\ \E id \in Ids, b \in Bodies :
          Put("PUT /api/services-hierarchie/:id", id, b, PutHierarchieData(b))

\* ------------------------------------------------------- POST /api/pointages

\* The fields POST /api/pointages asks for (a falsy value counts as missing).
PointageMissing(b) == b.serviceId = 0 \/ b.conducteurId = "" \/ b.validatedBy = ""

\* The row pointage.create stores: the payload built from the body, stamped
\* with the instant of the insert.
PointagePayload(b, now) ==
    [serviceId |-> b.serviceId,
     conducteurId |-> b.conducteurId,
     validatedBy |-> b.validatedBy,
     vehicleType |-> b.vehicleType,
     permisChecked |-> b.permisChecked,
     chronometerChecked |-> b.chronometerChecked,
     validatedAt |-> now]

\* The statut of service id, "" when no row has the id.
StatutOf(rows, id) == IF id \in 1..Len(rows) THEN rows[id].statut ELSE ""

\* A check-in request arrives: 400 when a field is missing, otherwise the
\* handler calls service.update.  (marked and added record what the request
\* has written: a statut it changed, the pointages it inserted.)
PointageReceive(Bodies) ==
    /\ pt.pc = "idle"
    /\ Reaches("POST", "/api/pointages")
    /\ Len(pointages) < MaxRows
    /\ \E b \in Bodies :
          pt' = [pc |-> IF PointageMissing(b) THEN "done" ELSE "update",
                 body |-> b,
                 status |-> IF PointageMissing(b) THEN 400 ELSE 0,
                 marked |-> FALSE,
                 added |-> 0]
    /\ UNCHANGED <<services, clock, handlerVars, startVars, gate, crud,
                   pointages, arrets, ar, vehicles, veh, stats>>

\* service.update({ where: { id: b.serviceId }, data: { statut: 'Terminée' } })
\* settles: the service is marked and the handler calls pointage.create; when
\* no service has the id or the call rejects, the catch block answers 400.
PointageUpdate ==
    /\ pt.pc = "update"
    /\ \E dbOk \in BOOLEAN :
          IF pt.body.serviceId \in 1..Len(services) /\ dbOk
          THEN /\ services' = [services EXCEPT ![pt.body.serviceId].statut = "Terminee"]
               /\ pt' = [pt EXCEPT !.pc = "create",
                                   !.marked = StatutOf(services, pt.body.serviceId) # "Terminee"]
          ELSE /\ pt' = [pt EXCEPT !.pc = "done", !.status = 400]
               /\ UNCHANGED services
    /\ UNCHANGED <<clock, handlerVars, startVars, gate, crud,
                   pointages, arrets, ar, vehicles, veh, stats>>

\* pointage.create({ data: payload }) settles: the row is stored and the
\* request answered 201; when the call rejects, the catch block answers 400.
PointageCreate ==
    /\ pt.pc = "create"
    /\ \E dbOk \in BOOLEAN :
          IF dbOk
          THEN /\ pointages' = Append(pointages, PointagePayload(pt.body, clock))
               /\ pt' = [pt EXCEPT !.pc = "done", !.status = 201, !.added = @ + 1]
          ELSE /\ pt' = [pt EXCEPT !.pc = "done", !.status = 400]
               /\ UNCHANGED pointages
    /\ UNCHANGED <<services, clock, handlerVars, startVars, gate, crud,
                   arrets, ar, vehicles, veh, stats>>

\* The response has been sent; the next check-in request can arrive.
PointageFinish ==
    /\ pt.pc = "done"
    /\ pt' = NoPt
    /\ UNCHANGED <<services, clock, handlerVars, startVars, gate, crud,
                   pointages, arrets, ar, vehicles, veh, stats>>

\* ---------------------------------------------------------- POST /api/arrets

\* prisma.arret.aggregate({ where: { trajetId }, _max: { ordre: true } }):
\* the largest ordre among the stops of the itinerary, null (<<>>) without any.
MaxOrdre(rows, trajetId) ==
    LET ordres == {rows[i].ordre : i \in {k \in 1..Len(rows) : rows[k].trajetId = trajetId}}
    IN  IF ordres = {} THEN <<>>
        ELSE <<CHOOSE m \in ordres : \A o \in ordres : o <= m>>

\* (maxOrdre._max.ordre || 0) + 1
NextOrdre(rows, trajetId) ==
    LET max == MaxOrdre(rows, trajetId)
    IN  (IF max = <<>> \/ max = <<0>> THEN 0 ELSE max[1]) + 1

\* Stop requests in flight: received and not yet answered.
ArretsInFlight == {p \in Procs : ar[p].pc \in {"max", "create"}}

\* A stop request arrives: 400 without trajetId or nom; with an ordre the
\* handler calls arret.create, without one (undefined or null, <<>>) it first
\* calls arret.aggregate.  `alone` asks that no other stop request is being
\* handled.
ArretReceive(p, Bodies, alone) ==
    /\ ar[p].pc = "idle"
    /\ Reaches("POST", "/api/arrets")
    /\ alone => \A q \in Procs : ar[q].pc = "idle"
    /\ Len(arrets) + Cardinality(ArretsInFlight) < MaxRows
    /\ \E b \in Bodies :
          ar' = [ar EXCEPT ![p] =
                    IF b.trajetId = "" \/ b.nom = ""
                    THEN [pc |-> "done", body |-> b, ordre |-> 0, status |-> 400]
                    ELSE IF b.ordre = <<>>
                    THEN [pc |-> "max", body |-> b, ordre |-> 0, status |-> 0]
                    ELSE [pc |-> "create", body |-> b, ordre |-> b.ordre[1], status |-> 0]]
    /\ UNCHANGED <<services, clock, handlerVars, startVars, gate, crud,
                   pointages, pt, arrets, vehicles, veh, stats>>

\* arret.aggregate settles: ordre is one more than the largest ordre read, and
\* the handler calls arret.create; when the call rejects, 400.
ArretMax(p) ==
    /\ ar[p].pc = "max"
    /\ \E dbOk \in BOOLEAN :
          ar' = [ar EXCEPT ![p] =
                    IF dbOk
                    THEN [@ EXCEPT !.pc = "create",
                                   !.ordre = NextOrdre(arrets, ar[p].body.trajetId)]
                    ELSE [@ EXCEPT !.pc = "done", !.status = 400]]
    /\ UNCHANGED <<services, clock, handlerVars, startVars, gate, crud,
                   pointages, pt, arrets, vehicles, veh, stats>>

\* arret.create settles: the stop is stored with the ordre computed and sent
\* back (200); when the call rejects, 400.
ArretCreate(p) ==
    /\ ar[p].pc = "create"
    /\ \E dbOk \in BOOLEAN :
          IF dbOk
          THEN /\ arrets' = Append(arrets, [trajetId |-> ar[p].body.trajetId,
                                            nom |-> ar[p].body.nom,
                                            ordre |-> ar[p].ordre])
               /\ ar' = [ar EXCEPT ![p].pc = "done", ![p].status = 200]
          ELSE /\ ar' = [ar EXCEPT ![p].pc = "done", ![p].status = 400]
               /\ UNCHANGED arrets
    /\ UNCHANGED <<services, clock, handlerVars, startVars, gate, crud,
                   pointages, pt, vehicles, veh, stats>>

\* The response has been sent; the slot serves the next stop request.
ArretFinish(p) ==
    /\ ar[p].pc = "done"
    /\ ar' = [ar EXCEPT ![p] = NoAr]
    /\ UNCHANGED <<services, clock, handlerVars, startVars, gate, crud,
                   pointages, pt, arrets, vehicles, veh, stats>>

\* -------------------------------------------------------- /api/vehicles

\* The fields POST /api/vehicles asks for (an empty string counts as missing).
VehicleMissing(b) == b.parc = <<>> \/ b.type = "" \/ b.modele = "" \/ b.immat = <<>>

\* Faulty variant: the parc is stored as sent.
VehiclePayloadUntrimmed(b) ==
    [parc |-> b.parc,
     type |-> b.type,
     modele |-> b.modele,
     immat |-> ToUpperCase(b.immat),
     km |-> IF IsFinite(NumberOf(b.km)) THEN NumberOf(b.km) ELSE Num(0),
     etatTechnique |->
         IF IsFinite(NumberOf(b.etatTechnique)) THEN NumberOf(b.etatTechnique)
         ELSE IF IsFinite(NumberOf(b.tauxSante)) THEN NumberOf(b.tauxSante)
         ELSE Num(100),
     tauxSante |->
         IF IsFinite(NumberOf(b.etatTechnique)) THEN NumberOf(b.etatTechnique)
         ELSE IF IsFinite(NumberOf(b.tauxSante)) THEN NumberOf(b.tauxSante)
         ELSE Num(100)]

\* The payload POST /api/vehicles builds from the body (of the columns, the
\* model keeps parc, type, modele, immat, km, etatTechnique and tauxSante).
VehiclePayload(b) ==
    [parc |-> Trim(b.parc),
     type |-> b.type,
     modele |-> b.modele,
     immat |-> ToUpperCase(b.immat),
     km |-> IF IsFinite(NumberOf(b.km)) THEN NumberOf(b.km) ELSE Num(0),
     etatTechnique |->
         IF IsFinite(NumberOf(b.etatTechnique)) THEN NumberOf(b.etatTechnique)
         ELSE IF IsFinite(NumberOf(b.tauxSante)) THEN NumberOf(b.tauxSante)
         ELSE Num(100),
     tauxSante |->
         IF IsFinite(NumberOf(b.etatTechnique)) THEN NumberOf(b.etatTechnique)
         ELSE IF IsFinite(NumberOf(b.tauxSante)) THEN NumberOf(b.tauxSante)
         ELSE Num(100)]

\* prisma.vehicle.upsert({ where: { parc }, update: payload, create: payload }):
\* the row with the payload's parc is replaced by the payload, or the payload
\* is inserted when no row has it.
VehicleUpsert(rows, payload) ==
    {r \in rows : r.parc # payload.parc} \cup {payload}

\* POST /api/vehicles: 400 when a field is missing, otherwise the upsert,
\* answered 201, or 400 when the call rejects.
PostVehicle(Bodies) ==
    /\ Reaches("POST", "/api/vehicles")
    /\ \E b \in Bodies, dbOk \in BOOLEAN :
          IF VehicleMissing(b) \/ ~dbOk
          THEN /\ veh' = [op |-> "POST", parc |-> <<>>, body |-> b, status |-> 400]
               /\ UNCHANGED vehicles
          ELSE /\ vehicles' = VehicleUpsert(vehicles, VehiclePayload(b))
               /\ veh' = [op |-> "POST", parc |-> <<>>, body |-> b, status |-> 201]
    /\ UNCHANGED <<services, clock, handlerVars, startVars, gate, crud,
                   pointages, pt, arrets, ar, stats>>

\* The data PUT /api/vehicles/:parc builds: a column is <<>> when it is
\* undefined and left alone, <<value>> when it is set.
PutVehicleData(b) ==
    [immat |-> IF b.immat # <<>> THEN <<ToUpperCase(b.immat)>> ELSE <<>>,
     km |-> IF b.km # Undef THEN <<NumberOf(b.km)>> ELSE <<>>,
     etatTechnique |->
         IF b.etatTechnique # Undef THEN <<NumberOf(b.etatTechnique)>> ELSE <<>>,
     tauxSante |->
         IF b.etatTechnique # Undef THEN <<NumberOf(b.etatTechnique)>>
         ELSE IF b.tauxSante # Undef THEN <<NumberOf(b.tauxSante)>>
         ELSE <<>>]

\* prisma.vehicle.update({ where: { parc }, data }) on a stored row: the
\* columns of data that are defined replace the row's.
VehicleUpdate(rows, parc, d) ==
    { IF r.parc # parc THEN r
      ELSE [r EXCEPT
              !.immat = IF d.immat # <<>> THEN d.immat[1] ELSE @,
              !.km = IF d.km # <<>> THEN d.km[1] ELSE @,
              !.etatTechnique = IF d.etatTechnique # <<>> THEN d.etatTechnique[1] ELSE @,
              !.tauxSante = IF d.tauxSante # <<>> THEN d.tauxSante[1] ELSE @] :
      r \in rows }

\* PUT /api/vehicles/:parc: the update, answered 200 with the row; 400 when
\* no vehicle has the parc of the path or the call rejects.
PutVehicle(Parcs, Bodies) ==
    /\ Reaches("PUT", "/api/vehicles/:parc")
    /\ \E parc \in Parcs, b \in Bodies, dbOk \in BOOLEAN :
          IF (\E r \in vehicles : r.parc = parc) /\ dbOk
          THEN /\ vehicles' = VehicleUpdate(vehicles, parc, PutVehicleData(b))
               /\ veh' = [op |-> "PUT", parc |-> parc, body |-> b, status |-> 200]
          ELSE /\ veh' = [op |-> "PUT", parc |-> parc, body |-> b, status |-> 400]
               /\ UNCHANGED vehicles
    /\ UNCHANGED <<services, clock, handlerVars, startVars, gate, crud,
                   pointages, pt, arrets, ar, stats>>

\* ------------------------------------------ GET /api/pointages/stats/daily

\* Math.round((a / b) * 100) for integers a >= 0 and b > 0: the nearest
\* integer, a half rounded up.
RoundPercent(a, b) == (200 * a + b) \div (2 * b)

\* new Date(y, m, d) of an instant: the first instant of its day.
StartOfDay(instant) == (instant \div TicksPerDay) * TicksPerDay

\* where: { gte: startOfDay, lt: endOfDay }
InDay(instant, startOfDay) ==
    startOfDay <= instant /\ instant < startOfDay + TicksPerDay

\* findMany: of the first n rows of a table, those the filter keeps (keep[i]
\* tells whether row i passes), in the table's order.
RECURSIVE FindMany(_, _, _)
FindMany(rows, keep, n) ==
    IF n = 0 THEN <<>>
    ELSE LET before == FindMany(rows, keep, n - 1)
         IN  IF keep[n] THEN Append(before, rows[n]) ELSE before

\* include: { service: { include: { ligne: true } } }: the pointage with the
\* start time of its service and the number of the service's line ("" when
\* the service has no such line).
WithService(p, rows) ==
    [conducteurId |-> p.conducteurId,
     heureDebut |-> rows[p.serviceId].heureDebut,
     numero |-> IF rows[p.serviceId].ligneId \in DOMAIN Lignes
                THEN rows[p.serviceId].ligneId ELSE ""]

\* heureDebut?.split(':')[0] || '??'
HourOf(heureDebut) ==
    IF heureDebut = <<>> \/ Split(heureDebut)[1] = <<>> THEN <<"?", "?">>
    ELSE Split(heureDebut)[1]

\* p.service?.ligne?.numero || '??'
LineOfPointage(p) == IF p.numero = "" THEN "??" ELSE p.numero

\* The response: the totals, the rate, and the groups by conductor, by hour of
\* departure and by line.
StatsOut(ps, ss) ==
    LET totalServices == Len(ss)
        totalPointages == Len(ps)
        conductors == {ps[i].conducteurId : i \in 1..Len(ps)}
        hours == {HourOf(ss[i].heureDebut) : i \in 1..Len(ss)}
        lines == {LineOfPointage(ps[i]) : i \in 1..Len(ps)}
    IN  [totalServices |-> totalServices,
         totalPointages |-> totalPointages,
         validationRate |->
             IF totalServices > 0 THEN RoundPercent(totalPointages, totalServices) ELSE 0,
         conductorStats |->
             [c \in conductors |->
                 Cardinality({i \in 1..Len(ps) : ps[i].conducteurId = c})],
         hourlyDistribution |->
             [h \in hours |->
                 [total |->
                      Cardinality({i \in 1..Len(ss) : HourOf(ss[i].heureDebut) = h}),
                  validated |->
                      Cardinality({i \in 1..Len(ps) : HourOf(ps[i].heureDebut) = h})]],
         lineStats |->
             [l \in lines |->
                 Cardinality({i \in 1..Len(ps) : LineOfPointage(ps[i]) = l})]]

\* A statistics request arrives, for the day of an instant given in the query
\* or for today; the handler calls pointage.findMany.
StatsReceive(Instants) ==
    /\ stats.pc = "idle"
    /\ Reaches("GET", "/api/pointages/stats/daily")
    /\ \E target \in Instants \cup {clock} :
          stats' = [pc |-> "pointages", day |-> StartOfDay(target),
                    pointages |-> <<>>, out |-> NoOut]
    /\ UNCHANGED <<services, clock, handlerVars, startVars, gate, crud,
                   pointages, pt, arrets, ar, vehicles, veh>>

\* pointage.findMany resolves with the pointages validated that day, each
\* with its service; the handler calls service.findMany.
StatsPointages ==
    /\ stats.pc = "pointages"
    /\ LET keep == [i \in 1..Len(pointages) |->
                        InDay(pointages[i].validatedAt, stats.day)]
           found == FindMany(pointages, keep, Len(pointages))
       IN  stats' = [stats EXCEPT
                       !.pc = "services",
                       !.pointages = [i \in 1..Len(found) |-> WithService(found[i], services)]]
    /\ UNCHANGED <<services, clock, handlerVars, startVars, gate, crud,
                   pointages, pt, arrets, ar, vehicles, veh>>

\* service.findMany resolves with the services dated that day; the handler
\* computes the statistics and sends them.
StatsServices ==
    /\ stats.pc = "services"
    /\ LET keep == [i \in 1..Len(services) |-> InDay(services[i].date, stats.day)]
           found == FindMany(services, keep, Len(services))
       IN  stats' = [stats EXCEPT !.pc = "done", !.out = StatsOut(stats.pointages, found)]
    /\ UNCHANGED <<services, clock, handlerVars, startVars, gate, crud,
                   pointages, pt, arrets, ar, vehicles, veh>>

\* The response has been sent; the next statistics request can arrive.
StatsFinish ==
    /\ stats.pc = "done"
    /\ stats' = NoStats
    /\ UNCHANGED <<services, clock, handlerVars, startVars, gate, crud,
                   pointages, pt, arrets, ar, vehicles, veh>>

\* Time passes.
Tick ==
    /\ clock < MaxClock
    /\ clock' = clock + 1
    /\ UNCHANGED <<services, handlerVars, startVars, gate, crud, sideVars>>

Init ==
    /\ services = <<>>
    /\ clock = 0
    /\ pc = [p \in Procs |-> "idle"]
    /\ req = [p \in Procs |-> NoBody]
    /\ data = [p \in Procs |-> NoRow]
    /\ res = [p \in Procs |-> NoRes]
    /\ writes = [p \in Procs |-> 0]
    /\ reads = [p \in Procs |-> NoReads]
    /\ prisma \in BOOLEAN
    /\ prismaReady = FALSE
    /\ boot = IF prisma THEN "probing" ELSE "listening"
    /\ query = IF prisma THEN "pending" ELSE "none"
    /\ gate = NoGate
    /\ crud = NoCrud
    /\ pointages = <<>>
    /\ pt = NoPt
    /\ arrets = <<>>
    /\ ar = [p \in Procs |-> NoAr]
    /\ vehicles = {}
    /\ veh = NoVeh
    /\ stats = NoStats

\* ------------------------------------------------------------ the requests

Body(sensId, ligneId, heureDebut, heureFin, date) ==
    [sensId |-> sensId, ligneId |-> ligneId, heureDebut |-> heureDebut,
     heureFin |-> heureFin, date |-> date, statut |-> ""]

\* Requests around one trip key, for the duplicate lookup: the same trip with
\* and without a date, the trip on another day, in another direction, at
\* another time, and requests each check rejects.
KeyBodies ==
    { Body("s1", "L1", TimeOfDay(9, 0), TimeOfDay(10, 0), <<0>>),
      Body("s1", "L1", TimeOfDay(9, 0), TimeOfDay(10, 0), <<>>),
      Body("s1", "L1", TimeOfDay(9, 0), TimeOfDay(10, 0), <<1>>),
      Body("s2", "L1", TimeOfDay(9, 0), TimeOfDay(10, 0), <<0>>),
      Body("s1", "L1", TimeOfDay(9, 0), TimeOfDay(11, 0), <<0>>),
      Body("", "L1", TimeOfDay(9, 0), TimeOfDay(10, 0), <<0>>),
      Body("s1", "L1", TimeOfDay(9, 0), TimeOfDay(21, 0), <<0>>),
      Body("s1", "L1", TimeOfDay(7, 0), TimeOfDay(9, 0), <<0>>) }

\* Well-formed and malformed time strings: every full hour, an hour past 23,
\* a time without leading zero, one without minutes, one that is no number.
OddTimes ==
    { TimeOfDay(25, 0), TimeOfDay(26, 0), <<"9", ":", "0", "0">>,
      <<"1", "0">>, <<"a", "b", ":", "c", "d">> }
HourTimes == {TimeOfDay(h, 0) : h \in 0..23}

\* Requests for the validation: every pair of times above, with or without a
\* direction, on each line, on no line and on a line that does not exist.
ValidateBodies ==
    { Body(s, l, hd, hf, <<0>>) :
        s \in {"", "s1"}, l \in {"", "L1", "L2", "L3", "L9"},
        hd \in HourTimes \cup OddTimes \cup {<<>>},
        hf \in HourTimes \cup OddTimes \cup {<<>>} }

\* Requests for the duration: times to the minute around each full hour.
MinuteTimes == {TimeOfDay(h, m) : h \in 0..23, m \in {0, 1, 59}}
DureeBodies ==
    { Body("s1", "L3", hd, hf, <<0>>) : hd \in MinuteTimes, hf \in MinuteTimes }

\* NumReq requests, handled concurrently.
Next ==
    \/ QueryResolves
    \/ QueryRejects
    \/ TimerFires
    \/ \E p \in Procs : Receive(p, KeyBodies, FALSE)
    \/ \E p \in Procs : LigneLookup(p)
    \/ \E p \in Procs : DupLookup(p)
    \/ \E p \in Procs : Create(p)
    \/ \E p \in Procs : PersistenceError(p)
    \/ Tick

Spec == Init /\ [][Next]_vars

\* Any number of requests handled one after another, never two at a time.
NextSeq ==
    \/ QueryResolves
    \/ QueryRejects
    \/ TimerFires
    \/ \E p \in Procs : Receive(p, KeyBodies, TRUE)
    \/ \E p \in Procs : LigneLookup(p)
    \/ \E p \in Procs : DupLookup(p)
    \/ \E p \in Procs : Create(p)
    \/ \E p \in Procs : PersistenceError(p)
    \/ \E p \in Procs : Finish(p)
    \/ Tick

SpecSeq == Init /\ [][NextSeq]_vars

\* One request, any of ValidateBodies, against the empty table.
NextValidate ==
    \/ QueryResolves
    \/ QueryRejects
    \/ TimerFires
    \/ Receive(1, ValidateBodies, TRUE)
    \/ LigneLookup(1)
    \/ DupLookup(1)
    \/ Create(1)
    \/ PersistenceError(1)

SpecValidate == Init /\ [][NextValidate]_vars

\* One request, any of DureeBodies, against the empty table.
NextDuree ==
    \/ QueryResolves
    \/ QueryRejects
    \/ TimerFires
    \/ Receive(1, DureeBodies, TRUE)
    \/ LigneLookup(1)
    \/ DupLookup(1)
    \/ Create(1)
    \/ PersistenceError(1)

SpecDuree == Init /\ [][NextDuree]_vars

\* Requests of any kind while the server starts and after: the methods, and the
\* paths served without the database, two that need it and one without route.
RouteMethods == {"GET", "POST", "OPTIONS"}
RoutePaths == noDbPaths \cup {"/api/services-hierarchie", "/api/services", "/api/nowhere"}

\* The start of the server, any request, and one creation request.
NextReady ==
    \/ QueryResolves
    \/ QueryRejects
    \/ TimerFires
    \/ Route(RouteMethods, RoutePaths)
    \/ Receive(1, KeyBodies, TRUE)
    \/ LigneLookup(1)
    \/ DupLookup(1)
    \/ Create(1)
    \/ PersistenceError(1)

SpecReady == Init /\ [][NextReady]_vars

\* The start of the server with its timer: setTimeout(..., 5000) fires unless
\* the race is settled before, so startServer does not wait for ever.
SpecStart == Init /\ [][NextReady]_vars /\ WF_vars(TimerFires)

\* Bodies of POST /api/services: with and without each required field; the
\* trip 23:00-22:00 lasts 1380 minutes and ends after line L1 closes.
PostBodies ==
    { [ligneId |-> l, conducteurId |-> c, date |-> d, heureDebut |-> hd,
       heureFin |-> hf, statut |-> ""] :
        l \in {"", "L1"}, c \in {""}, d \in {<<>>, <<0>>},
        hd \in {<<>>, TimeOfDay(23, 0)}, hf \in {<<>>, TimeOfDay(22, 0)} }

\* Bodies of the updates: each time given or not, with or without a driver;
\* 07:00 is before line L1 opens, 21:00 after it closes.
PutBodies ==
    { [conducteurId |-> c, heureDebut |-> hd, heureFin |-> hf, statut |-> ""] :
        c \in {<<>>, <<"c1">>},
        hd \in {<<>>, TimeOfDay(7, 0)}, hf \in {<<>>, TimeOfDay(21, 0)} }
PutIds == 1..(MaxCrudRows + 1)

\* The trips the creation request of SpecCrud asks for.
CrudTrips ==
    { Body("s1", "L1", TimeOfDay(9, 0), TimeOfDay(10, 0), <<0>>),
      Body("s1", "L1", TimeOfDay(9, 0), TimeOfDay(21, 0), <<0>>) }

\* The creation request of SpecCrud, taken while the table has room.
ReceiveCrud(Bodies) == Len(services) < MaxCrudRows /\ Receive(1, Bodies, TRUE)

\* One validated creation, and any number of plain creations and updates.
NextCrud ==
    \/ QueryResolves
    \/ QueryRejects
    \/ TimerFires
    \/ ReceiveCrud(CrudTrips)
    \/ LigneLookup(1)
    \/ DupLookup(1)
    \/ Create(1)
    \/ PersistenceError(1)
    \/ PostService(PostBodies)
    \/ PutService(PutIds, PutBodies)
    \/ PutServiceHierarchie(PutIds, PutBodies)

SpecCrud == Init /\ [][NextCrud]_vars

\* One plain creation with a driver assigned, then updates with every
\* combination of fields given, omitted or, for the driver, null.
SeedBodies ==
    { [ligneId |-> l, conducteurId |-> "c1", date |-> <<0>>,
       heureDebut |-> TimeOfDay(9, 0), heureFin |-> TimeOfDay(10, 0), statut |-> ""] :
        l \in {"", "L1"} }
FrameBodies ==
    { [conducteurId |-> c, heureDebut |-> hd, heureFin |-> hf, statut |-> st] :
        c \in {<<>>, <<"">>, <<"c2">>},
        hd \in {<<>>, TimeOfDay(7, 0)}, hf \in {<<>>, TimeOfDay(21, 0)},
        st \in {"", "Terminee"} }

NextPut ==
    \/ QueryResolves
    \/ QueryRejects
    \/ TimerFires
    \/ PostService(SeedBodies)
    \/ PutService(PutIds, FrameBodies)
    \/ PutServiceHierarchie(PutIds, FrameBodies)

SpecPut == Init /\ [][NextPut]_vars

\* ================================================================ claims

\* Bodies of POST /api/pointages: for no service, the stored one and an
\* unknown one, with and without the driver and the validator.
PointageBodies ==
    { [serviceId |-> s, conducteurId |-> c, validatedBy |-> v, vehicleType |-> "",
       permisChecked |-> k, chronometerChecked |-> FALSE] :
        s \in 0..(MaxCrudRows + 1), c \in {"", "c1"}, v \in {"", "Regulateur"},
        k \in BOOLEAN }

\* One plain creation, then check-in requests one after another.
NextPointage ==
    \/ QueryResolves
    \/ QueryRejects
    \/ TimerFires
    \/ PostService(SeedBodies)
    \/ PointageReceive(PointageBodies)
    \/ PointageUpdate
    \/ PointageCreate
    \/ PointageFinish

SpecPointage == Init /\ [][NextPointage]_vars

\* Bodies of POST /api/arrets without ordre: on two itineraries, with and
\* without each required field.
ArretBodies ==
    { [trajetId |-> t, nom |-> n, ordre |-> <<>>] :
        t \in {"", "t1", "t2"}, n \in {"", "A"} }

\* NumReq stop requests, handled concurrently.
NextArret ==
    \/ QueryResolves
    \/ QueryRejects
    \/ TimerFires
    \/ \E p \in Procs : ArretReceive(p, ArretBodies, FALSE)
    \/ \E p \in Procs : ArretMax(p)
    \/ \E p \in Procs : ArretCreate(p)
    \/ \E p \in Procs : ArretFinish(p)

SpecArret == Init /\ [][NextArret]_vars

\* Any number of stop requests handled one after another, never two at a time.
NextArretSeq ==
    \/ QueryResolves
    \/ QueryRejects
    \/ TimerFires
    \/ \E p \in Procs : ArretReceive(p, ArretBodies, TRUE)
    \/ \E p \in Procs : ArretMax(p)
    \/ \E p \in Procs : ArretCreate(p)
    \/ \E p \in Procs : ArretFinish(p)

SpecArretSeq == Init /\ [][NextArretSeq]_vars

\* A body of POST /api/vehicles.
VehicleBody(parc, type, immat, km, e, ts) ==
    [parc |-> parc, type |-> type, modele |-> "M", immat |-> immat,
     km |-> km, etatTechnique |-> e, tauxSante |-> ts]

\* Bodies of POST /api/vehicles: the parc with and without spaces around it,
\* the two states given, absent or not numeric, the km given, a parc of
\* spaces only, and bodies without a required field.
VehicleBodies ==
    { VehicleBody(parc, "Bus", <<"a", "b", "1">>, Undef, e, ts) :
        parc \in {<<"7">>, <<" ", "7">>, <<"8", " ">>},
        e \in {Undef, JNum(80), JStr(<<"x">>)},
        ts \in {Undef, JNum(50)} }
    \cup { VehicleBody(<<"7">>, "Bus", <<"a", "b", "1">>, JNum(10), Undef, Undef),
           VehicleBody(<<" ">>, "Bus", <<"a", "b", "1">>, Undef, Undef, Undef),
           VehicleBody(<<>>, "Bus", <<"a", "b", "1">>, Undef, Undef, Undef),
           VehicleBody(<<"7">>, "", <<"a", "b", "1">>, Undef, Undef, Undef),
           VehicleBody(<<"7">>, "Bus", <<>>, Undef, Undef, Undef) }

\* Bodies of PUT /api/vehicles/:parc: each column given or not.
VehiclePutBodies ==
    { [parc |-> <<>>, type |-> "", modele |-> "", immat |-> immat,
       km |-> Undef, etatTechnique |-> e, tauxSante |-> ts] :
        immat \in {<<>>, <<"b", "2">>},
        e \in {Undef, JNum(60)},
        ts \in {Undef, JNum(40)} }

\* The parc of the path: a stored one, one with a space, an unknown one.
VehicleParcs == {<<"7">>, <<" ", "7">>, <<"9">>}

\* Any sequence of vehicle creations and updates.
NextVehicle ==
    \/ QueryResolves
    \/ QueryRejects
    \/ TimerFires
    \/ PostVehicle(VehicleBodies)
    \/ PutVehicle(VehicleParcs, VehiclePutBodies)

SpecVehicle == Init /\ [][NextVehicle]_vars

\* Any sequence of vehicle creations.
NextVehiclePost ==
    \/ QueryResolves
    \/ QueryRejects
    \/ TimerFires
    \/ PostVehicle(VehicleBodies)

SpecVehiclePost == Init /\ [][NextVehiclePost]_vars

\* Trips for the statistics: the 09:00 trip of line L1 on day 0 and on day 1,
\* and a 10:00 trip of line L3 on day 0.
StatsTrips ==
    { Body("s1", "L1", TimeOfDay(9, 0), TimeOfDay(10, 0), <<d>>) : d \in {0, 1} }
    \cup { Body("s1", "L3", TimeOfDay(10, 0), TimeOfDay(11, 0), <<0>>) }

\* Check-ins for the statistics: of any stored trip, by two drivers.
StatsPointageBodies ==
    { [serviceId |-> s, conducteurId |-> c, validatedBy |-> "Regulateur",
       vehicleType |-> "", permisChecked |-> FALSE, chronometerChecked |-> FALSE] :
        s \in 1..MaxRows, c \in {"c1", "c2"} }

\* The days asked for: day 0 and day 1.
StatsInstants == {0, TicksPerDay}

\* No request is being handled.
Quiet == (\A p \in Procs : pc[p] = "idle") /\ pt.pc = "idle" /\ stats.pc = "idle"

\* The three kinds of request, each arriving when no other is being handled.
StatsTrip == Quiet /\ Receive(1, StatsTrips, TRUE)
StatsCheckIn == Quiet /\ PointageReceive(StatsPointageBodies)
StatsAsk == Quiet /\ StatsReceive(StatsInstants)

\* Trips are created and checked in, and the statistics of a day asked for,
\* one request after another, while time passes.
NextStats ==
    \/ QueryResolves
    \/ QueryRejects
    \/ TimerFires
    \/ StatsTrip
    \/ LigneLookup(1)
    \/ DupLookup(1)
    \/ Create(1)
    \/ PersistenceError(1)
    \/ Finish(1)
    \/ StatsCheckIn
    \/ PointageUpdate
    \/ PointageCreate
    \/ PointageFinish
    \/ Tick
    \/ StatsAsk
    \/ StatsPointages
    \/ StatsServices
    \/ StatsFinish

SpecStats == Init /\ [][NextStats]_vars

\* The errors of the field, duration and window checks.
ValidationErrors ==
    {"MissingFields", "DurationExceeds", "EndNotAfterStart", "MustStartBetween",
     "CannotEndAfter", "MustStartAtOrAfter", "MustEndBeforeOrAt"}

Created(p) == pc[p] = "done" /\ res[p].status = 200 /\ ~res[p].duplicate
AnsweredDuplicate(p) == pc[p] = "done" /\ res[p].status = 200 /\ res[p].duplicate
Rejected(p) == pc[p] = "done" /\ res[p].error \in ValidationErrors

\* ---- C1
C1_WriteCounts ==
    \A p \in Procs :
        /\ Created(p) => writes[p] = 1
        /\ AnsweredDuplicate(p) => writes[p] = 0
        /\ Rejected(p) => writes[p] = 0

C1_Step ==
    /\ services' # services =>
          \E p \in Procs :
             /\ pc[p] = "create" /\ Created(p)'
             /\ writes'[p] = writes[p] + 1
             /\ Len(services') = Len(services) + 1
             /\ SubSeq(services', 1, Len(services)) = services
    /\ \A p \in Procs :
          (pc[p] # "done" /\ (Rejected(p)' \/ AnsweredDuplicate(p)')) =>
              services' = services

\* C1: a request that passes every check and finds no duplicate performs
\* exactly one create; a request answered as a duplicate or rejected by the
\* field, duration or window check performs none, and the step that answers it
\* leaves the service table as it was.  The table changes only by the create
\* of such a request, which adds one row and alters no other.
C1_WriteFrame == [](C1_WriteCounts) /\ [][C1_Step]_vars

\* C1 witness: one request created a row, another was answered as its
\* duplicate without a write.
C1_Witness ==
    \E p, q \in Procs :
        /\ Created(p) /\ writes[p] = 1
        /\ AnsweredDuplicate(q) /\ writes[q] = 0
        /\ Len(services) = 1

\* The key of a trip: direction, date, start and end time.
KeyOf(row) == <<row.sensId, row.date, row.heureDebut, row.heureFin>>

\* The key a request asks for when it carries a date.
DatedKey(b) == <<b.sensId, DateOf(b.date), b.heureDebut, b.heureFin>>

\* The key a request asks for: its date, or the current date when it has none.
ResolvedKey(b, now) ==
    <<b.sensId, IF b.date # <<>> THEN DateOf(b.date) ELSE now,
      b.heureDebut, b.heureFin>>

\* The duplicate lookup of request p resolves in this step.
LookupAnswered(p) ==
    pc[p] = "dup" /\ pc'[p] # "dup" /\ res'[p].error # "Exception"

\* ---- C2
C2_Step ==
    \A p \in Procs :
        ( /\ LookupAnswered(p)
          /\ req[p].date # <<>>
          /\ \E i \in 1..Len(services) : KeyOf(services[i]) = DatedKey(req[p]) )
        => /\ AnsweredDuplicate(p)'
           /\ \E i \in 1..Len(services) :
                 /\ res'[p].row = services[i]
                 /\ KeyOf(services[i]) = DatedKey(req[p])
           /\ services' = services
           /\ writes'[p] = 0

\* C2: when the duplicate lookup of a request with a date runs while a trip
\* with the request's direction, date, start and end time is stored, the
\* answer is such a stored trip marked duplicate, and the table is unchanged.
C2_DuplicateAnswer == [][C2_Step]_vars

\* C2 witness: a request with a date was answered with the stored trip of its
\* own key, marked duplicate, and the table still holds that one row.
C2_Witness ==
    \E p \in Procs :
        /\ AnsweredDuplicate(p)
        /\ req[p].date # <<>>
        /\ res[p].row = services[1]
        /\ KeyOf(services[1]) = DatedKey(req[p])
        /\ Len(services) = 1

\* ---- C3
C3_Step ==
    \A p \in Procs :
        ( /\ LookupAnswered(p)
          /\ \A i \in 1..Len(services) :
                KeyOf(services[i]) # ResolvedKey(req[p], clock) )
        => /\ ~AnsweredDuplicate(p)'
           /\ pc'[p] = "create"

\* C3: a valid request whose key (direction, resolved date, start, end)
\* differs from the key of every stored trip is not answered as a duplicate
\* and goes on to create a row; the resolved date is the request's date, or
\* the current date when the request has none.
C3_FreshKeyCreates == [][C3_Step]_vars

\* C3, for requests that carry a date: this part holds.
C3_DatedFreshKeyCreates ==
    [][\A p \in Procs :
          ( /\ LookupAnswered(p)
            /\ req[p].date # <<>>
            /\ \A i \in 1..Len(services) : KeyOf(services[i]) # DatedKey(req[p]) )
          => pc'[p] = "create"]_vars

\* ---- C4
\* C4: with requests handled one at a time, no two stored trips have the same
\* direction, date, start and end time.
C4_NoTwoRowsSameKey ==
    \A i, j \in 1..Len(services) :
        i # j => KeyOf(services[i]) # KeyOf(services[j])

\* C4 witness: the table holds rows of several keys and a repeated request
\* has just been answered with the first of them instead of adding a row.
C4_Witness ==
    \E p \in Procs :
        /\ Len(services) >= 2
        /\ AnsweredDuplicate(p)
        /\ req[p].date # <<>>
        /\ res[p].row = services[1]
        /\ KeyOf(services[1]) = DatedKey(req[p])

\* ---- C5
\* C5: nothing orders the duplicate lookup of one request before the create
\* of another.  When two requests for the same key have both created, each
\* was given a row of its own: the table holds two rows with that key.
C5_BothInsert ==
    \A p, q \in Procs :
        ( /\ p # q
          /\ Created(p) /\ Created(q)
          /\ KeyOf(res[p].row) = KeyOf(res[q].row) )
        => /\ res[p].row.id # res[q].row.id
           /\ services[res[p].row.id] = res[p].row
           /\ services[res[q].row.id] = res[q].row

\* C5 witness: two requests with a date and the same key both found no
\* duplicate and both created: two stored rows have the same key.
C5_Witness ==
    \E p, q \in Procs :
        /\ p # q
        /\ Created(p) /\ Created(q)
        /\ req[p].date # <<>> /\ req[p] = req[q]
        /\ \E i, j \in 1..Len(services) :
              i # j /\ KeyOf(services[i]) = KeyOf(services[j])

\* ------------------------------------------------- duration and window claims

\* The duration as the specification defines it, on JavaScript numbers.
ReferenceDuree(start, end) ==
    IF JsLt(end, start) THEN JsAdd(JsSub(Num(1440), start), end) ELSE JsSub(end, start)

StartOf(b) == ParseMinutes(b.heureDebut)
EndOf(b) == ParseMinutes(b.heureFin)
FieldsPresent(b) == b.sensId # "" /\ b.heureDebut # <<>> /\ b.heureFin # <<>>

\* Request p has been received.
Received(p) == pc[p] # "idle"

RejectedWith(p, msg) ==
    pc[p] = "done" /\ res[p].status = 400 /\ res[p].error = msg

\* Request p got past the field and duration checks.
PassedDuration(p) ==
    \/ pc[p] \in {"ligne", "dup", "create"}
    \/ /\ pc[p] = "done"
       /\ res[p].error \notin {"MissingFields", "DurationExceeds", "EndNotAfterStart"}

\* The window check of request p has run: the line lookup resolved.
WindowChecked(p) ==
    \/ pc[p] \in {"dup", "create"}
    \/ /\ pc[p] = "done"
       /\ res[p].error \notin
             {"MissingFields", "DurationExceeds", "EndNotAfterStart", "Exception",
              "InvalidWhere"}

WindowErrors ==
    {"MustStartBetween", "CannotEndAfter", "MustStartAtOrAfter", "MustEndBeforeOrAt"}

\* ---- C6
\* C6: every stored trip has a duration d with 0 <= d <= 600, and every
\* request whose duration exceeds 600 is rejected with the duration error.
C6_DurationBound ==
    /\ \A i \in 1..Len(services) :
          LET d == ReferenceDuree(StartOf(services[i]), EndOf(services[i]))
          IN  JsGe(d, Num(0)) /\ JsLe(d, Num(600))
    /\ \A p \in Procs :
          ( /\ Received(p) /\ FieldsPresent(req[p])
            /\ JsGt(ReferenceDuree(StartOf(req[p]), EndOf(req[p])), Num(600)) )
          => RejectedWith(p, "DurationExceeds")

\* C6, for the trips whose two times parse to numbers: this part holds.
C6_NumericDurationBound ==
    \A i \in 1..Len(services) :
        LET d == ReferenceDuree(StartOf(services[i]), EndOf(services[i]))
        IN  ~IsNaN(d) => (JsGt(d, Num(0)) /\ JsLe(d, Num(600)))

\* ---- C7
\* C7: for start and end within 0..1439 the duration computed is end - start
\* when end >= start and (1440 - start) + end otherwise, and is never
\* negative; a request with end > start and end - start <= 600 passes the
\* duration check; 22:00-05:00 gives 420 and passes, 22:00-09:00 gives 660 and
\* is rejected with the duration error.  The function is compared on every
\* pair of minutes before any request is received, the handler on every
\* request of DureeBodies.
C7_DureeReference ==
    /\ (\A p \in Procs : pc[p] = "idle") =>
          \A start, end \in 0..1439 :
              LET d == DureeService(Num(start), Num(end))
              IN  /\ d = Num(IF end >= start THEN end - start
                                             ELSE (1440 - start) + end)
                  /\ d[1] >= 0
    /\ \A p \in Procs :
        Received(p) =>
            LET start == StartOf(req[p])[1]
                end == EndOf(req[p])[1]
                ref == IF end >= start THEN end - start ELSE (1440 - start) + end
            IN  /\ start \in 0..1439 /\ end \in 0..1439
                /\ DureeService(Num(start), Num(end)) = Num(ref)
                /\ ref >= 0
                /\ (end > start /\ end - start <= 600) => PassedDuration(p)
                /\ (start = 22 * 60 /\ end = 5 * 60) =>
                       (ref = 420 /\ PassedDuration(p))
                /\ (start = 22 * 60 /\ end = 9 * 60) =>
                       (ref = 660 /\ RejectedWith(p, "DurationExceeds"))

\* C7 witness: the request 22:00-05:00 got past the duration check and its
\* trip is stored.
C7_Witness ==
    /\ Created(1)
    /\ req[1].heureDebut = TimeOfDay(22, 0)
    /\ req[1].heureFin = TimeOfDay(5, 0)
    /\ Len(services) = 1

\* ---- C8
\* C8: a request whose duration is <= 0, and so one whose start and end times
\* are the same time of day, is rejected with status 400 and the
\* end-before-start error, and nothing is stored.
C8_EndNotAfterStart ==
    \A p \in Procs :
        ( /\ Received(p) /\ FieldsPresent(req[p])
          /\ JsLe(ReferenceDuree(StartOf(req[p]), EndOf(req[p])), Num(0)) )
        => /\ RejectedWith(p, "EndNotAfterStart")
           /\ writes[p] = 0
           /\ services = <<>>

\* C8 witness: the request 09:00-09:00 was rejected with that error.
C8_Witness ==
    /\ RejectedWith(1, "EndNotAfterStart")
    /\ req[1].heureDebut = TimeOfDay(9, 0)
    /\ req[1].heureFin = TimeOfDay(9, 0)
    /\ services = <<>>

\* The line request p names, as <<line>>, or <<>> when there is none.
LineOf(p) == LigneFindUnique(req[p].ligneId)
HasWindow(p) ==
    LineOf(p) # <<>> /\ LineOf(p)[1].heureDebut # <<>> /\ LineOf(p)[1].heureFin # <<>>
LineStart(p) == ParseMinutes(LineOf(p)[1].heureDebut)
LineEnd(p) == ParseMinutes(LineOf(p)[1].heureFin)

\* Request p is for the trip hd-hf on line l and its window check has run.
CheckedTrip(p, l, hd, hf) ==
    /\ WindowChecked(p)
    /\ req[p].ligneId = l /\ req[p].heureDebut = hd /\ req[p].heureFin = hf

\* Request p is for the trip hd-hf on line l, with a direction, and was
\* answered without a database call failing.
AnsweredTrip(p, l, hd, hf) ==
    /\ pc[p] = "done" /\ res[p].error # "Exception"
    /\ req[p].sensId # ""
    /\ req[p].ligneId = l /\ req[p].heureDebut = hd /\ req[p].heureFin = hf

\* ---- C9
\* The rule of C9: on a line whose window does not wrap, a request that
\* reaches the window check is rejected for its start when it starts before
\* the line opens, else rejected for its end when it ends after the line
\* closes, else it passes the window check.
C9_Rule ==
    \A p \in Procs :
        (WindowChecked(p) /\ HasWindow(p) /\ JsGe(LineEnd(p), LineStart(p))) =>
            /\ JsLt(StartOf(req[p]), LineStart(p)) =>
                   RejectedWith(p, "MustStartAtOrAfter")
            /\ JsGt(EndOf(req[p]), LineEnd(p)) =>
                   ( \/ RejectedWith(p, "MustStartAtOrAfter")
                     \/ RejectedWith(p, "MustEndBeforeOrAt") )
            /\ (~JsLt(StartOf(req[p]), LineStart(p)) /\ JsGt(EndOf(req[p]), LineEnd(p))) =>
                   RejectedWith(p, "MustEndBeforeOrAt")
            /\ (~JsLt(StartOf(req[p]), LineStart(p)) /\ ~JsGt(EndOf(req[p]), LineEnd(p))) =>
                   res[p].error \notin WindowErrors

\* C9 as claimed: the rule, and on the line open 08:00-20:00 the trip
\* 07:00-09:00 is rejected for its start, 09:00-21:00 for its end, and
\* 09:00-10:00 is accepted.
C9_WindowAsClaimed ==
    /\ C9_Rule
    /\ \A p \in Procs :
          /\ AnsweredTrip(p, "L1", TimeOfDay(7, 0), TimeOfDay(9, 0)) =>
                 RejectedWith(p, "MustStartAtOrAfter")
          /\ AnsweredTrip(p, "L1", TimeOfDay(9, 0), TimeOfDay(21, 0)) =>
                 RejectedWith(p, "MustEndBeforeOrAt")
          /\ AnsweredTrip(p, "L1", TimeOfDay(9, 0), TimeOfDay(10, 0)) =>
                 Created(p)

\* C9 amended: the rule, and on the line open 08:00-20:00 the trip
\* 07:00-09:00 is rejected for its start, 09:00-10:00 is accepted, 12:00-21:00
\* is rejected for its end, and 09:00-21:00, which lasts 720 minutes, is
\* rejected by the duration check before the line is looked up.
C9_NormalWindow ==
    /\ C9_Rule
    /\ \A p \in Procs :
          /\ AnsweredTrip(p, "L1", TimeOfDay(7, 0), TimeOfDay(9, 0)) =>
                 RejectedWith(p, "MustStartAtOrAfter")
          /\ AnsweredTrip(p, "L1", TimeOfDay(12, 0), TimeOfDay(21, 0)) =>
                 RejectedWith(p, "MustEndBeforeOrAt")
          /\ AnsweredTrip(p, "L1", TimeOfDay(9, 0), TimeOfDay(21, 0)) =>
                 RejectedWith(p, "DurationExceeds")
          /\ AnsweredTrip(p, "L1", TimeOfDay(9, 0), TimeOfDay(10, 0)) =>
                 Created(p)

\* C9 witness: the trip 12:00-21:00 on the line open 08:00-20:00 was rejected
\* for its end.
C9_Witness ==
    /\ AnsweredTrip(1, "L1", TimeOfDay(12, 0), TimeOfDay(21, 0))
    /\ RejectedWith(1, "MustEndBeforeOrAt")
    /\ services = <<>>

\* ---- C10
\* C10: on a line whose window wraps past midnight, a request that reaches
\* the window check passes the start test exactly when its start is at or
\* after the opening time or at or before the closing time, and is otherwise
\* rejected with status 400 and the start-outside-window error.  On the line
\* open 05:00-02:00 a start at 01:00 or at 22:00 passes and a start at 03:00
\* is rejected.
C10_WrappingWindowStart ==
    \A p \in Procs :
        (WindowChecked(p) /\ HasWindow(p) /\ JsLt(LineEnd(p), LineStart(p))) =>
            /\ ( \/ JsGe(StartOf(req[p]), LineStart(p))
                 \/ JsLe(StartOf(req[p]), LineEnd(p)) )
               <=> ~RejectedWith(p, "MustStartBetween")
            /\ res[p].error = "MustStartBetween" => RejectedWith(p, "MustStartBetween")
            /\ (req[p].ligneId = "L2" /\ req[p].heureDebut = TimeOfDay(1, 0)) =>
                   ~RejectedWith(p, "MustStartBetween")
            /\ (req[p].ligneId = "L2" /\ req[p].heureDebut = TimeOfDay(22, 0)) =>
                   ~RejectedWith(p, "MustStartBetween")
            /\ (req[p].ligneId = "L2" /\ req[p].heureDebut = TimeOfDay(3, 0)) =>
                   RejectedWith(p, "MustStartBetween")

\* C10 witness: on the line open 05:00-02:00 the trip 01:00-02:00, which
\* starts after midnight, was accepted and stored.
C10_Witness ==
    /\ AnsweredTrip(1, "L2", TimeOfDay(1, 0), TimeOfDay(2, 0))
    /\ Created(1)
    /\ Len(services) = 1

\* ---- C11
\* C11: on a line whose window wraps past midnight, a request that reaches
\* the window check with a trip that itself runs past midnight (end < start),
\* starts at or after the opening time and ends after the closing time is
\* rejected with status 400 and the end-after-close error, and nothing is
\* stored; no other request gets that error.
C11_WrappingWindowEnd ==
    \A p \in Procs :
        (WindowChecked(p) /\ HasWindow(p) /\ JsLt(LineEnd(p), LineStart(p))) =>
            LET case == /\ JsLt(EndOf(req[p]), StartOf(req[p]))
                        /\ JsGe(StartOf(req[p]), LineStart(p))
                        /\ JsGt(EndOf(req[p]), LineEnd(p))
            IN  /\ case => /\ RejectedWith(p, "CannotEndAfter")
                           /\ writes[p] = 0
                           /\ services = <<>>
                /\ res[p].error = "CannotEndAfter" => case

\* C11 witness: on the line open 05:00-02:00 the trip 22:00-03:00 was rejected
\* for its end, and the table is empty.
C11_Witness ==
    /\ AnsweredTrip(1, "L2", TimeOfDay(22, 0), TimeOfDay(3, 0))
    /\ RejectedWith(1, "CannotEndAfter")
    /\ writes[1] = 0
    /\ services = <<>>

\* The line of a stored row, as <<line>>, or <<>>; whether it has both bounds.
RowLine(row) == LigneFindUnique(row.ligneId)
RowHasWindow(row) ==
    RowLine(row) # <<>> /\ RowLine(row)[1].heureDebut # <<>> /\ RowLine(row)[1].heureFin # <<>>

\* Both times of the row denote a minute of the day.
RowTimesInDay(row) ==
    /\ JsGe(StartOf(row), Num(0)) /\ JsLt(StartOf(row), Num(1440))
    /\ JsGe(EndOf(row), Num(0)) /\ JsLt(EndOf(row), Num(1440))

\* Minute t lies inside the window ls-le, which wraps when le < ls.
InsideWindow(t, ls, le) ==
    IF JsLt(le, ls) THEN JsGe(t, ls) \/ JsLe(t, le)
    ELSE JsGe(t, ls) /\ JsLe(t, le)

\* ---- C12
\* C12: every stored trip whose line has both window bounds starts inside the
\* line's window, and when it does not cross midnight (end > start) it does
\* not end after the closing time, that is, its end is inside the window too.
\* Stated for trips whose times are minutes of the day.
C12_StoredInsideWindow ==
    \A i \in 1..Len(services) :
        LET row == services[i]
            ls == ParseMinutes(RowLine(row)[1].heureDebut)
            le == ParseMinutes(RowLine(row)[1].heureFin)
        IN  (RowHasWindow(row) /\ RowTimesInDay(row)) =>
                /\ InsideWindow(StartOf(row), ls, le)
                /\ JsGt(EndOf(row), StartOf(row)) => InsideWindow(EndOf(row), ls, le)

\* C12, first half alone: every such trip starts inside the window.
C12_StartInsideWindow ==
    \A i \in 1..Len(services) :
        LET row == services[i]
            ls == ParseMinutes(RowLine(row)[1].heureDebut)
            le == ParseMinutes(RowLine(row)[1].heureFin)
        IN  (RowHasWindow(row) /\ RowTimesInDay(row)) =>
                InsideWindow(StartOf(row), ls, le)

\* C12, second half alone: every such trip that does not cross midnight ends
\* inside the window.
C12_EndInsideWindow ==
    \A i \in 1..Len(services) :
        LET row == services[i]
            ls == ParseMinutes(RowLine(row)[1].heureDebut)
            le == ParseMinutes(RowLine(row)[1].heureFin)
        IN  (RowHasWindow(row) /\ RowTimesInDay(row) /\ JsGt(EndOf(row), StartOf(row))) =>
                InsideWindow(EndOf(row), ls, le)

\* Request p was answered, and not because a database call failed in passing.
Settled(p) == pc[p] = "done" /\ res[p].error # "Exception"

\* ---- C13
\* C13: a request that names no line, a line that is not stored, or a line
\* without heureDebut or heureFin is never given a window error: once past the
\* field and duration checks it is answered with the stored duplicate or with
\* the trip it created.
C13_NoWindowNoCheck ==
    \A p \in Procs :
        (Settled(p) /\ PassedDuration(p) /\ ~HasWindow(p)) =>
            (Created(p) \/ AnsweredDuplicate(p))

\* C13, for requests that name a line (one that is not stored, or one without
\* window bounds): this part holds.
C13_NamedLineNoCheck ==
    \A p \in Procs :
        (Settled(p) /\ PassedDuration(p) /\ ~HasWindow(p) /\ req[p].ligneId # "") =>
            (Created(p) \/ AnsweredDuplicate(p))

\* A request that names no line is answered 400 by the catch block, whatever
\* its times, and stores nothing.
C13_NoLineRefused ==
    \A p \in Procs :
        (Settled(p) /\ PassedDuration(p) /\ req[p].ligneId = "") =>
            (RejectedWith(p, "InvalidWhere") /\ writes[p] = 0 /\ services = <<>>)

\* A request on a line that is not stored created its trip; one without a
\* line was refused.
C13_UnknownLineCreated ==
    /\ AnsweredTrip(1, "L9", TimeOfDay(9, 0), TimeOfDay(10, 0))
    /\ Created(1)
C13_NoLineAnswered ==
    /\ AnsweredTrip(1, "", TimeOfDay(9, 0), TimeOfDay(10, 0))
    /\ RejectedWith(1, "InvalidWhere")

\* ---- C14
\* C14: a request without sensId, heureDebut or heureFin is answered 400 with
\* the missing-field error, and no database call is made for it: no line
\* lookup, no duplicate lookup, no create.
C14_MissingFieldsFirst ==
    \A p \in Procs :
        (Received(p) /\ ~FieldsPresent(req[p])) =>
            /\ RejectedWith(p, "MissingFields")
            /\ reads[p] = NoReads
            /\ writes[p] = 0
            /\ services = <<>>

\* C14 witness: a request for 09:00-10:00 on line L1 without sensId was
\* answered with the missing-field error, no database call made.
C14_Witness ==
    /\ req[1] = Body("", "L1", TimeOfDay(9, 0), TimeOfDay(10, 0), <<0>>)
    /\ RejectedWith(1, "MissingFields")
    /\ reads[1] = NoReads /\ writes[1] = 0
    /\ services = <<>>

\* The number x is a minute of the day.
MinuteOfDay(x) == JsGe(x, Num(0)) /\ JsLe(x, Num(1439))

\* ---- C15
\* C15: every stored trip has a start and an end in 0..1439 minutes since
\* midnight, and a request one of whose times denotes a number outside that
\* range (hour 25, say) creates no trip.  Stated for requests both of whose
\* times parse to a number.
C15_TimesInDay ==
    /\ \A i \in 1..Len(services) :
          (~IsNaN(StartOf(services[i])) /\ ~IsNaN(EndOf(services[i]))) =>
              (MinuteOfDay(StartOf(services[i])) /\ MinuteOfDay(EndOf(services[i])))
    /\ \A p \in Procs :
          ( /\ Received(p) /\ FieldsPresent(req[p])
            /\ ~IsNaN(StartOf(req[p])) /\ ~IsNaN(EndOf(req[p]))
            /\ ~(MinuteOfDay(StartOf(req[p])) /\ MinuteOfDay(EndOf(req[p]))) )
          => ~Created(p)

\* The request failed: it was answered without a trip, created or found.
Failed(p) == pc[p] = "done" /\ res[p].row = NoRow

\* ---- C16
\* C16: creation requests are handled only once the database is ready, and
\* every one that fails - on a missing field, on the duration, on the window,
\* or on an error thrown by a database read or write - is answered with
\* status 400 and an error text; status 200 is given only together with the
\* trip created or found.
C16_FailuresAre400 ==
    \A p \in Procs :
        /\ Received(p) => prismaReady
        /\ Failed(p) => (res[p].status = 400 /\ res[p].error # "")
        /\ (pc[p] = "done" /\ res[p].error # "") => Failed(p)
        /\ (pc[p] = "done" /\ ~Failed(p)) =>
               (res[p].status = 200 /\ (Created(p) \/ AnsweredDuplicate(p)))

\* C16 witness: the database call of a request that passed the field and
\* duration checks threw, and the request was answered 400 with the
\* exception's text.
C16_Witness ==
    /\ prismaReady
    /\ FieldAndDurationCheck(req[1]) = "ok"
    /\ RejectedWith(1, "Exception")
    /\ Failed(1)

\* The trip of a row, as the body of a creation request.
RowAsBody(row) ==
    [sensId |-> row.sensId, ligneId |-> row.ligneId, heureDebut |-> row.heureDebut,
     heureFin |-> row.heureFin, date |-> <<>>, statut |-> row.statut]

\* The row passes the checks of the validated creation.
PassesChecks(row) ==
    /\ FieldAndDurationCheck(RowAsBody(row)) = "ok"
    /\ ~FindUniqueRefuses(row.ligneId)
    /\ WindowCheck(RowAsBody(row), LigneFindUnique(row.ligneId)) = "ok"

\* ---- C17
\* C17: the only step that adds a row to the service table is the create of a
\* validated creation request, so every row added has passed the field,
\* duration and window checks of that request.
C17_OnlyValidatedInserts ==
    [][Len(services') > Len(services) =>
          /\ \E p \in Procs : pc[p] = "create" /\ Created(p)'
          /\ PassesChecks(services'[Len(services')])]_vars

\* C17, for the rows the validated creation adds: this part holds.
C17_ValidatedInsertsChecked ==
    [][(Len(services') > Len(services) /\ \E p \in Procs : pc[p] = "create" /\ Created(p)') =>
          PassesChecks(services'[Len(services')])]_vars

\* A row added by POST /api/services that lasts 1380 minutes and ends after
\* its line closes.
C17_UncheckedRowStored ==
    /\ crud.op = "POST /api/services" /\ crud.status = 201
    /\ services[crud.id].heureDebut = TimeOfDay(23, 0)
    /\ services[crud.id].heureFin = TimeOfDay(22, 0)
    /\ ~PassesChecks(services[crud.id])

\* The last answer is that of a successful update of a stored row.
Updated == crud.op \in {"PUT /api/services/:id", "PUT /api/services-hierarchie/:id"}
           /\ crud.status = 200

\* The row lasts longer than the creation allows, or is outside its line's window.
OutOfBounds(row) ==
    \/ FieldAndDurationCheck(RowAsBody(row)) = "DurationExceeds"
    \/ WindowCheck(RowAsBody(row), LigneFindUnique(row.ligneId)) \in WindowErrors

\* ---- C18
\* C18: an update (PUT /api/services/:id or PUT /api/services-hierarchie/:id)
\* that is answered 200 has stored the heureDebut and heureFin it was given
\* as they are, with no duration or window check: the row has exactly the
\* times given, also when they last more than 600 minutes or lie outside the
\* line's window, so a trip that passed the checks of its creation can be
\* updated into one that does not.
C18_UpdateUnchecked ==
    Updated =>
        /\ crud.id \in 1..Len(services)
        /\ crud.body.heureDebut # <<>> =>
               services[crud.id].heureDebut = crud.body.heureDebut
        /\ crud.body.heureFin # <<>> =>
               services[crud.id].heureFin = crud.body.heureFin

\* C18 witness: the trip 09:00-10:00 on line L1 (open 08:00-20:00), created by
\* the validated creation, was updated to 07:00-21:00: it now starts before
\* the line opens and lasts 840 minutes.
C18_Witness ==
    /\ Created(1)
    /\ res[1].row.heureDebut = TimeOfDay(9, 0) /\ res[1].row.heureFin = TimeOfDay(10, 0)
    /\ PassesChecks(res[1].row)
    /\ crud.op = "PUT /api/services-hierarchie/:id" /\ crud.status = 200
    /\ crud.id = res[1].row.id
    /\ services[crud.id].heureDebut = TimeOfDay(7, 0)
    /\ services[crud.id].heureFin = TimeOfDay(21, 0)
    /\ services[crud.id].sensId = "s1"
    /\ OutOfBounds(services[crud.id])

\* The same through the other route: PUT /api/services/:id.
C18_WitnessServices ==
    /\ Created(1) /\ PassesChecks(res[1].row)
    /\ crud.op = "PUT /api/services/:id" /\ crud.status = 200
    /\ crud.id = res[1].row.id
    /\ OutOfBounds(services[crud.id])

\* A request has been answered by the middleware or passed on by it.
Routed == gate # NoGate

\* No trip handler has run: no request slot is in use, no database call was
\* made for one, and the service table is as it was at the start.
NoHandlerReached ==
    /\ \A p \in Procs : pc[p] = "idle" /\ reads[p] = NoReads /\ writes[p] = 0
    /\ services = <<>>
    /\ crud = NoCrud

\* ---- C19
\* C19 as claimed: while prismaReady is false, every request whose path is not
\* one of noDbPaths is answered 503 and reaches no handler; requests to the
\* paths of noDbPaths are passed on whether the database is ready or not.
C19_AllRefused503 ==
    /\ ~prismaReady => NoHandlerReached
    /\ (Routed /\ ~prismaReady /\ gate.path \notin noDbPaths) =>
           (gate.outcome = "Unavailable" /\ gate.status = 503)
    /\ (Routed /\ gate.path \in noDbPaths) => gate.outcome = "next"

\* C19 amended: while prismaReady is false, no request whose path is not one
\* of noDbPaths is passed on, so no handler runs and no database read or write
\* is made: such a request is answered 503 by the readiness middleware, except
\* an OPTIONS request, which the CORS middleware answers 200 before, and a
\* request whose JSON body does not parse, which the error handler answers
\* 500.  A request to a path of noDbPaths, other than those two kinds, is
\* passed on whether the database is ready or not.
C19_NotReadyNoHandler ==
    /\ ~prismaReady => NoHandlerReached
    /\ (Routed /\ ~prismaReady /\ gate.path \notin noDbPaths) =>
           /\ gate.outcome # "next"
           /\ gate.method = "OPTIONS" => gate.status = 200
           /\ (gate.method # "OPTIONS" /\ ~gate.jsonOk) => gate.status = 500
           /\ (gate.method # "OPTIONS" /\ gate.jsonOk) =>
                  (gate.outcome = "Unavailable" /\ gate.status = 503)
    /\ (Routed /\ gate.path \in noDbPaths /\ gate.method # "OPTIONS" /\ gate.jsonOk) =>
           gate.outcome = "next"
    /\ (Routed /\ gate.outcome = "Unavailable") =>
           (~prismaReady /\ gate.path \notin noDbPaths)

\* C19 witness: the probe failed, the server listens, and a well-formed POST
\* /api/services-hierarchie was answered 503 without reaching the handler.
C19_Witness ==
    /\ boot = "listening" /\ ~prismaReady
    /\ gate = [method |-> "POST", path |-> "/api/services-hierarchie", jsonOk |-> TRUE,
               outcome |-> "Unavailable", status |-> 503]
    /\ NoHandlerReached

\* While the database is not ready an OPTIONS request to a path outside
\* noDbPaths was answered 200, and a GET /health was passed on.
C19_OptionsAnswered ==
    /\ ~prismaReady
    /\ gate.method = "OPTIONS" /\ gate.path = "/api/services" /\ gate.status = 200
C19_HealthPassedOn ==
    /\ ~prismaReady
    /\ gate.method = "GET" /\ gate.path = "/health" /\ gate.outcome = "next"

\* The probe is over and did not succeed: the server listens without the database.
ProbeFailed == boot = "listening" /\ ~prismaReady

\* What a step may do to the readiness flag: it is never reset; it is set only
\* by the step in which the probe query resolves while the race is open; once
\* the probe has failed it stays false; and startServer runs once.
C20_FlagStep ==
    /\ prismaReady => prismaReady'
    /\ (~prismaReady /\ prismaReady') =>
           (boot = "probing" /\ query = "pending" /\ query' = "resolved")
    /\ ProbeFailed => ProbeFailed'
    /\ boot = "listening" => boot' = "listening"

\* ---- C20
\* C20 as claimed: prismaReady starts false and changes at most once, to true,
\* only when the startup probe succeeds; it is never reset; when the probe
\* fails it stays false for good, and every request to a path outside
\* noDbPaths is then answered 503.
C20_OneShotThen503 ==
    /\ ~prismaReady
    /\ [][C20_FlagStep]_vars
    /\ []((ProbeFailed /\ Routed /\ gate.path \notin noDbPaths) => gate.status = 503)

\* C20 amended: the same for the flag; when the probe fails, no request to a
\* path outside noDbPaths is ever passed on to a handler: it is answered 503,
\* except an OPTIONS request (200) and a request whose JSON body does not
\* parse (500), which are answered before the readiness middleware.
C20_OneShotFlag ==
    /\ ~prismaReady
    /\ [][C20_FlagStep]_vars
    /\ [](ProbeFailed => NoHandlerReached)
    /\ []((ProbeFailed /\ Routed /\ gate.path \notin noDbPaths) =>
             /\ gate.outcome # "next"
             /\ (gate.method # "OPTIONS" /\ gate.jsonOk) => gate.status = 503)

\* C20 witness: the probe query rejected, the flag is still false, and a GET
\* /api/services made afterwards was answered 503.
C20_Witness ==
    /\ query = "rejected" /\ ProbeFailed
    /\ gate = [method |-> "GET", path |-> "/api/services", jsonOk |-> TRUE,
               outcome |-> "Unavailable", status |-> 503]

\* The flag was set by the probe that succeeded, and a creation request was
\* handled afterwards.
C20_ReadyServes ==
    /\ prismaReady /\ query = "resolved" /\ boot = "listening"
    /\ Created(1)

\* The positions of a request in the order the handler goes through them.
StepOrder ==
    {<<"idle", "ligne">>, <<"idle", "done">>, <<"ligne", "dup">>, <<"ligne", "done">>,
     <<"dup", "create">>, <<"dup", "done">>, <<"create", "done">>, <<"done", "idle">>}

\* What has been checked and called at each position of request p.
C21_Position ==
    \A p \in Procs :
        /\ reads[p].ligne \in {0, 1} /\ reads[p].dup \in {0, 1} /\ writes[p] \in {0, 1}
        /\ reads[p].dup = 1 => reads[p].ligne = 1
        /\ writes[p] = 1 => reads[p].dup = 1
        /\ pc[p] = "idle" => (reads[p] = NoReads /\ writes[p] = 0)
        /\ pc[p] = "ligne" =>
               /\ FieldAndDurationCheck(req[p]) = "ok"
               /\ reads[p] = [ligne |-> 1, dup |-> 0] /\ writes[p] = 0
        /\ pc[p] \in {"dup", "create"} =>
               /\ FieldAndDurationCheck(req[p]) = "ok"
               /\ WindowCheck(req[p], LigneFindUnique(req[p].ligneId)) = "ok"
               /\ reads[p] = [ligne |-> 1, dup |-> 1] /\ writes[p] = 0
        /\ (pc[p] = "done" /\ res[p].error \in
                {"MissingFields", "DurationExceeds", "EndNotAfterStart"}) =>
               (reads[p] = NoReads /\ writes[p] = 0)
        /\ (pc[p] = "done" /\ res[p].error \in WindowErrors) =>
               (reads[p] = [ligne |-> 1, dup |-> 0] /\ writes[p] = 0)
        /\ (Created(p) \/ AnsweredDuplicate(p)) => reads[p] = [ligne |-> 1, dup |-> 1]

\* A request moves forward only, one position at a time, and each call is
\* made once, in the step that leaves the position before it.
C21_Step ==
    \A p \in Procs :
        /\ pc'[p] # pc[p] => <<pc[p], pc'[p]>> \in StepOrder
        /\ reads'[p].ligne > reads[p].ligne => (pc[p] = "idle" /\ pc'[p] = "ligne")
        /\ reads'[p].dup > reads[p].dup => (pc[p] = "ligne" /\ pc'[p] = "dup")
        /\ writes'[p] > writes[p] => (pc[p] = "create" /\ pc'[p] = "done")

\* ---- C21
\* C21: a creation request goes through its steps in one order: field and
\* duration check, line lookup, window check, duplicate lookup, create.  It
\* makes at most one line lookup, one duplicate lookup and one create; a
\* request rejected by the field or duration check has made no lookup, and a
\* request rejected by the window check has made the line lookup only.
C21_FixedOrder == [](C21_Position) /\ [][C21_Step]_vars

\* C21 witness: two requests side by side, one that created its trip after one
\* line lookup and one duplicate lookup, one rejected by the window check after
\* the line lookup alone.
C21_Witness ==
    \E p, q \in Procs :
        /\ Created(p) /\ reads[p] = [ligne |-> 1, dup |-> 1] /\ writes[p] = 1
        /\ RejectedWith(q, "MustStartAtOrAfter")
        /\ reads[q] = [ligne |-> 1, dup |-> 0] /\ writes[q] = 0

\* The row an update with body b is said to leave in place of row old: the
\* fields given replace the row's, a null driver clears the assignment, an
\* omitted field and every other field stay.
FrameOf(old, b) ==
    [old EXCEPT
       !.conducteurId = IF b.conducteurId = <<>> THEN @ ELSE b.conducteurId[1],
       !.heureDebut = IF b.heureDebut = <<>> THEN @ ELSE b.heureDebut,
       !.heureFin = IF b.heureFin = <<>> THEN @ ELSE b.heureFin,
       !.statut = IF b.statut = "" THEN @ ELSE b.statut]

\* This step is an update through route op, answered 200.
UpdateStep(op) == crud' # crud /\ crud'.op = op /\ crud'.status = 200

\* The update of this step did what FrameOf says, to its row and no other.
FrameKept ==
    /\ crud'.id \in 1..Len(services)
    /\ services' = [services EXCEPT ![crud'.id] = FrameOf(@, crud'.body)]

\* ---- C22
\* C22: an update through PUT /api/services/:id replaces the fields given in
\* the body among conducteurId, heureDebut, heureFin and statut and leaves
\* the omitted ones, ligneId, sensId, date and every other row as they were; a
\* null conducteurId clears the assignment and an omitted one keeps it.  An
\* update through PUT /api/services-hierarchie/:id does the same.
C22_UpdateFrame ==
    [][ /\ UpdateStep("PUT /api/services/:id") => FrameKept
        /\ UpdateStep("PUT /api/services-hierarchie/:id") => FrameKept ]_vars

\* C22, for PUT /api/services/:id alone: this part holds.
C22_ServicesFrame == [][UpdateStep("PUT /api/services/:id") => FrameKept]_vars

\* PUT /api/services-hierarchie/:id does the same except for a null
\* conducteurId, which it treats as omitted: the assignment is kept.
C22_HierarchieFrame ==
    [][UpdateStep("PUT /api/services-hierarchie/:id") =>
          /\ crud'.id \in 1..Len(services)
          /\ services' = [services EXCEPT ![crud'.id] =
                 FrameOf(@, [crud'.body EXCEPT
                                !.conducteurId = IF @ = <<"">> THEN <<>> ELSE @])] ]_vars

\* A PUT /api/services/:id with a null conducteurId cleared the assignment of
\* a trip that had a driver.
C22_ClearedByServices ==
    /\ crud.op = "PUT /api/services/:id" /\ crud.status = 200
    /\ crud.body.conducteurId = <<"">>
    /\ services[crud.id].conducteurId = ""

\* A PUT /api/services-hierarchie/:id with a null conducteurId was answered
\* 200 and the trip still has its driver.
C22_KeptByHierarchie ==
    /\ crud.op = "PUT /api/services-hierarchie/:id" /\ crud.status = 200
    /\ crud.body.conducteurId = <<"">>
    /\ services[crud.id].conducteurId = "c1"

\* The probe query resolves in this step while the race is still open.
ResolvesInTime == boot = "probing" /\ query = "pending" /\ query' = "resolved"

\* The probe query resolved after the timer had settled the race.
ResolvedLate == query = "resolved" /\ boot = "listening" /\ ~prismaReady

\* The flag becomes true in the step in which the probe query resolves in
\* time and in no other; a server that listens without the flag keeps it false.
C24_ProbeStep ==
    /\ (~prismaReady /\ prismaReady') <=> ResolvesInTime
    /\ (boot = "listening" /\ ~prismaReady) => (boot' = "listening" /\ ~prismaReady')
    /\ (query = "pending" /\ query' = "resolved" /\ boot = "listening") =>
           UNCHANGED <<prismaReady, boot>>

\* ---- C24
\* C24: the server starts listening whether or not the startup probe
\* succeeds, and prismaReady is true exactly when the probe query resolved
\* before the 5-second timer fired: a probe query that resolves only after the
\* timer leaves the server not ready for good.
C24_ListensAnyway ==
    /\ <>(boot = "listening")
    /\ [](prismaReady => (query = "resolved" /\ boot = "listening"))
    /\ [](query = "rejected" => ~prismaReady)
    /\ [][C24_ProbeStep]_vars
    /\ [](ResolvedLate => [](~prismaReady))

\* C24 witness: the probe query resolved after the timer, the flag is false,
\* and a GET /api/services made afterwards was answered 503.
C24_Witness ==
    /\ ResolvedLate
    /\ gate.method = "GET" /\ gate.path = "/api/services" /\ gate.status = 503

\* The server listens with the flag set after a probe that resolved in time,
\* and listens without it after a probe that rejected.
C24_ListensReady == boot = "listening" /\ prismaReady /\ query = "resolved"
C24_ListensFailed == boot = "listening" /\ ~prismaReady /\ query = "rejected"

\* The check-in request has been answered with this status.
PointageAnswered(status) == pt.pc = "done" /\ pt.status = status

\* ---- C23
\* C23: POST /api/pointages is all-or-nothing.  Answered 201, the service it
\* names has statut 'Terminée' and exactly one pointage was added; answered
\* with an error, also when the insert fails after the service update, the
\* request has added no pointage and has not changed the service's statut.
C23_AllOrNothing ==
    /\ PointageAnswered(201) =>
          /\ StatutOf(services, pt.body.serviceId) = "Terminee"
          /\ pt.added = 1
    /\ PointageAnswered(400) =>
          /\ pt.added = 0
          /\ ~pt.marked

\* C23, the success half and the pointage count: these hold.
C23_SuccessAndCount ==
    /\ PointageAnswered(201) =>
          /\ StatutOf(services, pt.body.serviceId) = "Terminee"
          /\ pt.added = 1
    /\ PointageAnswered(400) => pt.added = 0
    /\ pt.pc \in {"idle", "update"} => (pt.added = 0 /\ ~pt.marked)

\* A request answered 400 after the insert failed: no pointage was added, and
\* the service, 'Planifiée' before, is left marked 'Terminée'.
C23_MarkedWithoutPointage ==
    /\ PointageAnswered(400)
    /\ pt.marked /\ pt.added = 0
    /\ StatutOf(services, pt.body.serviceId) = "Terminee"
    /\ pointages = <<>>

\* A request answered 201: the service is marked and the pointage stored.
C23_CheckedIn ==
    /\ PointageAnswered(201)
    /\ pt.marked /\ pt.added = 1
    /\ StatutOf(services, pt.body.serviceId) = "Terminee"
    /\ Len(pointages) = 1

\* The ordre values of the stops of each itinerary are pairwise distinct.
DistinctOrdre ==
    \A i, j \in 1..Len(arrets) :
        (i # j /\ arrets[i].trajetId = arrets[j].trajetId) =>
            arrets[i].ordre # arrets[j].ordre

\* The stop stored in this step got 1 + the largest ordre of its itinerary,
\* 1 when the itinerary had no stop.
OrdreAssigned ==
    Len(arrets') = Len(arrets) + 1 =>
        LET new == arrets'[Len(arrets')]
            old == {arrets[i].ordre :
                       i \in {k \in 1..Len(arrets) : arrets[k].trajetId = new.trajetId}}
        IN  /\ new.ordre >= 1
            /\ \A o \in old : new.ordre > o
            /\ new.ordre = 1 \/ (new.ordre - 1) \in old

\* ---- C25
\* C25: POST /api/arrets without ordre stores the stop with ordre = 1 + the
\* maximum ordre among the stops of the same trajet (1 when it has none), and
\* the ordre values within a trajet are pairwise distinct in every reachable
\* state, for any interleaving of concurrent creation requests.
C25_DistinctOrdre == [][OrdreAssigned]_vars /\ []DistinctOrdre

\* C25 for requests handled one at a time: under SpecArretSeq the claim holds.
C25_DistinctOrdreSeq == [][OrdreAssigned]_vars /\ [](DistinctOrdre /\ Len(arrets) <= MaxRows)

\* Two requests for the same itinerary, both answered 200, stored two stops
\* with the same ordre.
C25_SameOrdreTwice ==
    /\ \A p \in Procs : ar[p].pc = "done" /\ ar[p].status = 200
    /\ Len(arrets) = 2
    /\ arrets[1].trajetId = arrets[2].trajetId
    /\ arrets[1].ordre = 1 /\ arrets[2].ordre = 1

\* Stops stored one after another on one itinerary: ordre 1, 2, 3.
C25_InSequence ==
    /\ Len(arrets) = 3
    /\ \A i \in 1..3 : arrets[i].trajetId = "t1" /\ arrets[i].ordre = i

\* Every stored vehicle has tauxSante equal to etatTechnique.
Aligned == \A v \in vehicles : v.tauxSante = v.etatTechnique

\* ---- C26
\* C26: after any sequence of POST /api/vehicles and PUT /api/vehicles/:parc
\* requests, every stored vehicle has tauxSante equal to etatTechnique.
C26_TauxSanteAligned == Aligned

\* C26 for POST /api/vehicles alone, and for every PUT that gives
\* etatTechnique or leaves tauxSante out: these keep the two aligned.
C26_AlignedUnlessTauxSanteAlone ==
    [][(Aligned /\ ~(veh'.op = "PUT" /\ veh'.body.etatTechnique = Undef
                      /\ veh'.body.tauxSante # Undef)) => Aligned']_vars

\* A PUT with tauxSante and without etatTechnique was answered 200 and left
\* the vehicle with tauxSante 40 and etatTechnique 80.
C26_TauxSanteAlone ==
    /\ veh.op = "PUT" /\ veh.status = 200
    /\ veh.body.etatTechnique = Undef /\ veh.body.tauxSante = JNum(40)
    /\ \E v \in vehicles :
          v.parc = veh.parc /\ v.tauxSante = Num(40) /\ v.etatTechnique = Num(80)

\* The stored vehicles with this parc.
WithParc(rows, parc) == {v \in rows : v.parc = parc}

\* This step is a POST /api/vehicles answered 201 that is not a repetition of
\* the request before it.
UpsertStep ==
    /\ veh'.op = "POST" /\ veh'.status = 201
    /\ <<veh, vehicles>>' # <<veh, vehicles>>

\* What the upsert of this step did: the vehicle of the trimmed parc carries
\* the fields of the body, the other vehicles are as they were, and the number
\* of vehicles grew by one for a new parc and not at all for a stored one.
UpsertDone ==
    LET b == veh'.body
        key == Trim(b.parc)
    IN  /\ \E v \in vehicles' :
              /\ WithParc(vehicles', key) = {v}
              /\ v.type = b.type /\ v.modele = b.modele
              /\ v.immat = ToUpperCase(b.immat)
              /\ b.km = JNum(10) => v.km = Num(10)
              /\ b.etatTechnique = JNum(80) => v.etatTechnique = Num(80)
        /\ \A v \in vehicles : v.parc # key => v \in vehicles'
        /\ \A v \in vehicles' : v.parc # key => v \in vehicles
        /\ Cardinality(vehicles') =
               Cardinality(vehicles) + (IF WithParc(vehicles, key) = {} THEN 1 ELSE 0)

\* Sending any valid body twice from this state leaves what sending it once leaves.
SameTwice ==
    \A b \in VehicleBodies :
        ~VehicleMissing(b) =>
            LET once == VehicleUpsert(vehicles, VehiclePayload(b))
            IN  VehicleUpsert(once, VehiclePayload(b)) = once

\* ---- C27
\* C27: POST /api/vehicles is an upsert keyed by the trimmed parc.  After any
\* sequence of such requests the store holds at most one vehicle per parc, and
\* every parc stored is trimmed; a request for a stored parc replaces that
\* vehicle's fields without changing the number of vehicles; and the same
\* valid body sent twice leaves the state that sending it once leaves.
C27_UpsertByTrimmedParc ==
    /\ [](\A v, w \in vehicles : v.parc = w.parc => v = w)
    /\ [](\A v \in vehicles : v.parc = Trim(v.parc))
    /\ [][UpsertStep => UpsertDone]_vars
    /\ [][(veh'.op = "POST" /\ veh' = veh) => vehicles' = vehicles]_vars
    /\ []SameTwice

\* C27 witness: after a vehicle '7' was stored, a request with parc ' 7' and
\* tauxSante 50 was answered 201: the store holds '7' and '8', and '7' carries
\* the fields of this request.
C27_Witness ==
    /\ veh.op = "POST" /\ veh.status = 201
    /\ veh.body.parc = <<" ", "7">> /\ veh.body.tauxSante = JNum(50)
    /\ veh.body.etatTechnique = Undef
    /\ Cardinality(vehicles) = 2
    /\ \E v \in vehicles : v.parc = <<"7">> /\ v.etatTechnique = Num(50)
    /\ \E v \in vehicles : v.parc = <<"8">>

\* The sum of the values of a function over the keys in S.
RECURSIVE SumOf(_, _)
SumOf(f, S) ==
    IF S = {} THEN 0
    ELSE LET k == CHOOSE x \in S : TRUE
         IN  f[k] + SumOf(f, S \ {k})

\* The statistics request has been answered.
StatsAnswered == stats.pc = "done"

\* The counts per conductor, and the counts per line, each sum to totalPointages.
GroupsSumUp ==
    /\ SumOf(stats.out.conductorStats, DOMAIN stats.out.conductorStats)
           = stats.out.totalPointages
    /\ SumOf(stats.out.lineStats, DOMAIN stats.out.lineStats)
           = stats.out.totalPointages

\* ---- C28
\* C28: in every answer of GET /api/pointages/stats/daily, validationRate is
\* an integer in 0..100, and 0 when the day has no service; every hour
\* bucket has validated <= total; and the pointage counts per conductor and
\* per line each sum to totalPointages.
C28_StatsNumbers ==
    StatsAnswered =>
        /\ stats.out.validationRate \in 0..100
        /\ stats.out.totalServices = 0 => stats.out.validationRate = 0
        /\ \A h \in DOMAIN stats.out.hourlyDistribution :
               stats.out.hourlyDistribution[h].validated
                   <= stats.out.hourlyDistribution[h].total
        /\ GroupsSumUp

\* C28 without the two upper limits: the rate is a natural number, 0 without
\* services and at most 100 when the day has no more pointages than services,
\* and the groups sum to the total.
C28_RateAndSums ==
    StatsAnswered =>
        /\ stats.out.validationRate \in Nat
        /\ stats.out.totalServices = 0 => stats.out.validationRate = 0
        /\ stats.out.totalPointages <= stats.out.totalServices =>
               stats.out.validationRate <= 100
        /\ GroupsSumUp

\* Day 0 has one trip; it and the trip of day 1 were both checked in on day
\* 0, once each: the answer for day 0 has a rate of 200.
C28_RateOver100 ==
    /\ StatsAnswered /\ stats.day = 0
    /\ Len(pointages) = 2 /\ pointages[1].serviceId # pointages[2].serviceId
    /\ stats.out.totalServices = 1 /\ stats.out.totalPointages = 2
    /\ stats.out.validationRate = 200

\* In the same situation the bucket of 09:00 counts 1 trip and 2 validated.
C28_BucketOverTotal ==
    /\ StatsAnswered /\ stats.day = 0
    /\ Len(pointages) = 2 /\ pointages[1].serviceId # pointages[2].serviceId
    /\ <<"0", "9">> \in DOMAIN stats.out.hourlyDistribution
    /\ stats.out.hourlyDistribution[<<"0", "9">>] = [total |-> 1, validated |-> 2]

\* An answer with two conductors and two lines: the groups sum to the total.
C28_Grouped ==
    /\ StatsAnswered
    /\ stats.out.totalPointages = 3
    /\ Cardinality(DOMAIN stats.out.conductorStats) = 2
    /\ Cardinality(DOMAIN stats.out.lineStats) = 2
    /\ stats.out.totalServices = 2 /\ stats.out.validationRate = 150

====
